---- MODULE Spec2Model ----
(***************************************************************************)
(* A model of book-builder: the PDF object graph and serializer            *)
(* (printpdf/pdf_document.rs, pdf_page.rs, pdf_layer.rs), the font         *)
(* embedder (printpdf/font.rs) and the page layout (pdf.rs).               *)
(*                                                                         *)
(* Specifications:                                                         *)
(*   Spec        the document: add_page, add_layer, add_bookmark, layer    *)
(*               operators, save_to_bytes                                  *)
(*   SpecLayer   one layer under the operations of PdfLayer                *)
(*   SpecFont    the embedding of one font face: glyph table, ToUnicode    *)
(*               CMAP blocks, W array                                      *)
(*   SpecLayout  the layout of blocks on pages: new_page, write_header,    *)
(*               end_last_paragraph, write_code, add_image, write_extras   *)
(*   SpecSubset  one call of subset (printpdf/subsetting.rs)               *)
(*   SpecGroup   the iteration of GroupSliceBy over the glyphs of a line   *)
(*   SpecToc     TocNode::build over the nodes of the chapters (toc.rs)    *)
(***************************************************************************)
EXTENDS Integers, Sequences, FiniteSets, TLC

VARIABLES
    pages,      \* PdfDocument.pages: Vec<PdfPage>
    bookmarks,  \* PdfDocument.bookmarks: HashMap<usize, String>
    bookmarked, \* per page index, the name the latest add_bookmark call gave
                \* and whether a call for the page followed one with another name
    fonts,      \* Fonts.fonts: HashSet<fontdb::ID>
    saved,      \* what save_to_bytes left behind ("none" before the call)
    current_layer, \* a PdfLayer under the operations of pdf_layer.rs
    calls,      \* the calls made on that layer, in call order
    face,       \* the font face ExternalFont::into_with_document embeds
    cmap,       \* font.rs 114: BTreeMap glyph id -> (unicode, width, height)
    all_cmap_blocks,    \* font.rs 143: Vec<CmapBlock>
    cid_to_unicode_map, \* font.rs 164: the bfchar blocks of the ToUnicode CMAP
    widths_list,        \* font.rs 177: the W array
    embedding,  \* how far into_with_document has come
    written_glyphs, \* the glyph ids the layers write in the font (pdf.rs 281)
    layout_pages,   \* pdf.rs Document.pages, each with what was written on it
    appended,       \* the blocks the layout appended, in order
    layout_outcome, \* "ok", or "panic" once an assertion of the layout failed
    font_bytes,     \* subsetting.rs 20: the font handed to subset
    used_glyphs,    \* subsetting.rs 21: the caller's HashSet<u16>
    subset_call,    \* the call of subset: what was passed in, what came back
    slice,          \* pdf.rs 549: GroupSliceBy.slice, what is left to group
    group,          \* pdf.rs 550: GroupSliceBy.group, the key of an element
    line_glyphs,    \* pdf.rs 275: the slice the iterator was made over
    yielded,        \* the items next has returned, in order
    exhausted,      \* next has returned None
    arena,          \* toc.rs 18: the TocNodes allocated, the root first
    stack,          \* toc.rs 65: the open headings above the root
    ast_nodes,      \* the nodes build_toc_tree was called on, in order
    toc_outcome     \* "ok", or "panic" once build_toc_tree panicked

documentVars == <<pages, bookmarks, bookmarked, fonts, saved>>
layerVars == <<current_layer, calls>>
fontVars ==
    <<face, cmap, all_cmap_blocks, cid_to_unicode_map, widths_list, embedding, written_glyphs>>
layoutVars == <<layout_pages, appended, layout_outcome>>
subsetVars == <<font_bytes, used_glyphs, subset_call>>
groupVars == <<slice, group, line_glyphs, yielded, exhausted>>
tocVars == <<arena, stack, ast_nodes, toc_outcome>>
vars == <<documentVars, layerVars, fontVars, layoutVars, subsetVars, groupVars, tocVars>>

\* what each specification leaves alone
outsideDocument == <<layerVars, fontVars, layoutVars, subsetVars, groupVars, tocVars>>
outsideLayer == <<documentVars, fontVars, layoutVars, subsetVars, groupVars, tocVars>>
outsideFont == <<documentVars, layerVars, layoutVars, subsetVars, groupVars, tocVars>>
outsideLayout == <<documentVars, layerVars, fontVars, subsetVars, groupVars, tocVars>>
outsideSubset == <<documentVars, layerVars, fontVars, layoutVars, groupVars, tocVars>>
outsideGroup == <<documentVars, layerVars, fontVars, layoutVars, subsetVars, tocVars>>
outsideToc == <<documentVars, layerVars, fontVars, layoutVars, subsetVars, groupVars>>

\* ------------------------------------------------------------------------
\* Bounds of the model
\* ------------------------------------------------------------------------

\* pages + layers beyond each page's first + operators of a document
MaxSize == 3

\* ------------------------------------------------------------------------
\* The font database (cosmic_text::FontSystem) the document is built against
\* ------------------------------------------------------------------------

\* Two faces share a PostScript name (the same family loaded from the assets
\* directory and from the system fonts); one face has no character map.
FontIds == {"f1", "f2", "f3", "f4"}

PostScriptName(id) ==
    CASE id = "f1" -> "PTSerif"
      [] id = "f2" -> "PTSerif"
      [] id = "f3" -> "FiraCode"
      [] OTHER     -> "NoCmap"

\* face.tables().cmap is Some
HasCmap(id) == id # "f4"

Titles == {"intro", "outro"}
LayerNames == {"text"}
PageWidth == 210
PageHeight == 297

\* calls made on the layer of SpecLayer
MaxCalls == 3

\* what the layer operations are called with
Colors == {<<0, 0, 0>>, <<255, 128, 0>>}
Cursors == {<<10, 272>>}
GlyphRuns == {<<>>, <<65>>, <<258, 3>>, <<65535, 256>>}
Lines == {<<[operator |-> "m", name |-> "", bytes |-> <<0, 0>>],
            [operator |-> "l", name |-> "", bytes |-> <<9, 0>>],
            [operator |-> "S", name |-> "", bytes |-> <<>>]>>}
Transformations == {<<>>, <<<<1, 0, 0, 1, 5, 7>>>>,
                    <<<<1, 0, 0, 1, 5, 7>>, <<2, 0, 0, 3, 0, 0>>>>}

\* ------------------------------------------------------------------------
\* Helpers
\* ------------------------------------------------------------------------

RECURSIVE SeqSum(_)
SeqSum(s) == IF s = <<>> THEN 0 ELSE Head(s) + SeqSum(Tail(s))

RECURSIVE Flatten(_)
Flatten(ss) == IF ss = <<>> THEN <<>> ELSE Head(ss) \o Flatten(Tail(ss))

RECURSIVE SortedSeq(_)
\* the elements of a finite set of integers in ascending order
SortedSeq(S) ==
    IF S = {} THEN <<>>
    ELSE LET m == CHOOSE x \in S : \A y \in S : x <= y
         IN <<m>> \o SortedSeq(S \ {m})

Perms(S) ==
    {s \in [1..Cardinality(S) -> S] : \A i, j \in 1..Cardinality(S) : i # j => s[i] # s[j]}

\* ------------------------------------------------------------------------
\* Layers (pdf_layer.rs)
\* ------------------------------------------------------------------------

\* lopdf::content::Operation: an operator with its operands
Operation(operator, name, bytes) ==
    [operator |-> operator, name |-> name, bytes |-> bytes]

\* PdfLayer::new
PdfLayer_new(name) == [name |-> name, operations |-> <<>>]

\* an add_operation that puts the operator in front of the list
add_operation_in_front(layer, op) ==
    [layer EXCEPT !.operations = <<op>> \o @]

\* PdfLayer::add_operation
add_operation(layer, op) ==
    [layer EXCEPT !.operations = Append(@, op)]

\* PdfLayer::begin_text_section / end_text_section
begin_text_section(layer) == add_operation(layer, Operation("BT", "", <<>>))
end_text_section(layer) == add_operation(layer, Operation("ET", "", <<>>))

\* PdfLayer::set_font: the operand is the font's PostScript name
\* a set_font that names the font by a number of its own, not by its PostScript name
set_font_numbered(layer, font_name) == add_operation(layer, Operation("Tf", "F0", <<>>))

set_font(layer, font_name) == add_operation(layer, Operation("Tf", font_name, <<>>))

\* PdfLayer::set_fill_color: PdfColor::FillColor(color) as one operator
set_fill_color(layer, fill_color) ==
    add_operation(layer, Operation("rg", "", fill_color))

\* Pt::from(Mm): millimetres into points, in thousandths of a point
MmIntoPt(mm) == (mm * 2834646) \div 1000

\* PdfLayer::set_text_cursor
set_text_cursor(layer, x, y) ==
    add_operation(layer, Operation("Td", "", <<MmIntoPt(x), MmIntoPt(y)>>))

\* u16::to_le_bytes: the low byte first
to_le_bytes(x) == <<x % 256, x \div 256>>

\* u16::to_be_bytes
to_be_bytes(x) == <<x \div 256, x % 256>>

\* PdfLayer::write_codepoints: one Tj over two bytes per glyph id, pushed
\* on the operator list directly
write_codepoints(layer, codepoints) ==
    [layer EXCEPT !.operations =
        Append(@, Operation("Tj", "",
                   Flatten([i \in 1..Len(codepoints) |-> to_be_bytes(codepoints[i])])))]

\* PdfLayer::save_graphics_state / restore_graphics_state
save_graphics_state(layer) == add_operation(layer, Operation("q", "", <<>>))
restore_graphics_state(layer) == add_operation(layer, Operation("Q", "", <<>>))

RECURSIVE add_shape(_, _)
\* PdfLayer::add_shape: line_ops is what line.into_stream_op() returns
add_shape(layer, line_ops) ==
    IF line_ops = <<>> THEN layer
    ELSE add_shape(add_operation(layer, Head(line_ops)), Tail(line_ops))

\* CurTransMat::Identity and CurTransMat::combine_matrix, on the six numbers
\* a b c d e f of a transformation
Identity == <<1, 0, 0, 1, 0, 0>>
combine_matrix(a, b) ==
    <<a[1] * b[1] + a[2] * b[3], a[1] * b[2] + a[2] * b[4],
      a[3] * b[1] + a[4] * b[3], a[3] * b[2] + a[4] * b[4],
      a[5] * b[1] + a[6] * b[3] + b[5], a[5] * b[2] + a[6] * b[4] + b[6]>>

RECURSIVE combine_all(_, _)
\* the loop of use_xobject over the transformations (lines 117-120)
combine_all(t, transformations) ==
    IF transformations = <<>> THEN t
    ELSE combine_all(combine_matrix(t, Head(transformations)), Tail(transformations))

\* PdfLayer::internal_invoke_xobject: Do, pushed on the operator list directly
internal_invoke_xobject(layer, name) ==
    [layer EXCEPT !.operations = Append(@, Operation("Do", name, <<>>))]

\* a use_xobject that writes a cm for an empty list as well
use_xobject_always_cm(layer, xobj_name, transformations) ==
    restore_graphics_state(
        internal_invoke_xobject(
            add_operation(save_graphics_state(layer),
                Operation("cm", "", combine_all(Identity, transformations))),
            xobj_name))

\* PdfLayer::use_xobject
use_xobject(layer, xobj_name, transformations) ==
    restore_graphics_state(
        internal_invoke_xobject(
            IF transformations # <<>>
            THEN add_operation(save_graphics_state(layer),
                     Operation("cm", "", combine_all(Identity, transformations)))
            ELSE save_graphics_state(layer),
            xobj_name))

\* ------------------------------------------------------------------------
\* Pages (pdf_page.rs)
\* ------------------------------------------------------------------------

\* a PdfPage::new that numbers the pages from 1
PdfPage_new_one_based(width, height, layer_name, page_index) ==
    [index |-> page_index + 1, width |-> width, height |-> height,
     layers |-> <<PdfLayer_new(layer_name)>>]

\* PdfPage::new: one initial layer; returns the page (its layer index is 0)
PdfPage_new(width, height, layer_name, page_index) ==
    [index |-> page_index, width |-> width, height |-> height,
     layers |-> <<PdfLayer_new(layer_name)>>]

\* PdfPage::add_layer
add_layer(page, layer_name) ==
    [page EXCEPT !.layers = Append(@, PdfLayer_new(layer_name))]

\* ------------------------------------------------------------------------
\* Document construction (pdf_document.rs)
\* ------------------------------------------------------------------------

NotSaved == [outcome |-> "none"]

\* the values of variables a specification does not use
NoLayer == [name |-> "", operations |-> <<>>]
NoDocument == [outcome |-> "unused"]
NoFace == [units_per_em |-> 0]
DocumentUnused ==
    pages = <<>> /\ bookmarks = <<>> /\ bookmarked = <<>> /\ fonts = {} /\ saved = NoDocument
LayerUnused == current_layer = NoLayer /\ calls = <<>>
FontUnused ==
    /\ face = NoFace
    /\ cmap = <<>>
    /\ all_cmap_blocks = <<>>
    /\ cid_to_unicode_map = <<>>
    /\ widths_list = <<>>
    /\ embedding = "unused"
    /\ written_glyphs = {}
LayoutUnused == layout_pages = <<>> /\ appended = <<>> /\ layout_outcome = "unused"
NoSubset == [outcome |-> "none"]
SubsetUnused == font_bytes = NoFace /\ used_glyphs = {} /\ subset_call = NoSubset
GroupUnused ==
    /\ slice = <<>>
    /\ group = <<>>
    /\ line_glyphs = <<>>
    /\ yielded = <<>>
    /\ exhausted = FALSE
TocUnused == arena = <<>> /\ stack = <<>> /\ ast_nodes = <<>> /\ toc_outcome = "unused"

\* PdfDocument::new: one page with one layer
PdfDocument_new == <<PdfPage_new(PageWidth, PageHeight, "text", 0)>>

\* PdfDocument::empty: no page
PdfDocument_empty == <<>>

ExtraLayers == SeqSum([i \in 1..Len(pages) |-> Len(pages[i].layers) - 1])
Operators ==
    SeqSum([i \in 1..Len(pages) |->
        SeqSum([j \in 1..Len(pages[i].layers) |-> Len(pages[i].layers[j].operations)])])
DocSize == Len(pages) + ExtraLayers + Operators

Init ==
    /\ pages \in {PdfDocument_new, PdfDocument_empty}
    /\ bookmarks = <<>>
    /\ bookmarked = <<>>
    /\ fonts = {}
    /\ saved = NotSaved
    /\ LayerUnused
    /\ FontUnused
    /\ LayoutUnused
    /\ SubsetUnused
    /\ GroupUnused
    /\ TocUnused

\* PdfDocument::add_page
AddPage ==
    /\ saved.outcome = "none"
    /\ DocSize < MaxSize
    /\ \E name \in LayerNames :
          pages' = Append(pages, PdfPage_new(PageWidth, PageHeight, name, Len(pages)))
    /\ UNCHANGED <<bookmarks, bookmarked, fonts, saved>>
    /\ UNCHANGED outsideDocument

\* PdfDocument::get_page(page).add_layer(name)
AddLayer ==
    /\ saved.outcome = "none"
    /\ DocSize < MaxSize
    /\ \E p \in 1..Len(pages), name \in LayerNames :
          pages' = [pages EXCEPT ![p] = add_layer(@, name)]
    /\ UNCHANGED <<bookmarks, bookmarked, fonts, saved>>
    /\ UNCHANGED outsideDocument

\* HashMap::entry(key).or_insert(value): an entry already there is kept
HashMapOrInsert(map, key, value) ==
    [k \in DOMAIN map \cup {key} |-> IF k \in DOMAIN map THEN map[k] ELSE value]

\* HashMap::insert
HashMapInsert(map, key, value) ==
    [k \in DOMAIN map \cup {key} |-> IF k = key THEN value ELSE map[k]]

\* PdfDocument::add_bookmark: the page index is not checked against the pages
AddBookmark ==
    /\ saved.outcome = "none"
    /\ \E page \in 0..Len(pages), name \in Titles :
          /\ bookmarks' = HashMapInsert(bookmarks, page, name)
          /\ bookmarked' =
                [k \in DOMAIN bookmarked \cup {page} |->
                    IF k # page THEN bookmarked[k]
                    ELSE [name |-> name,
                          renamed |-> /\ page \in DOMAIN bookmarked
                                      /\ (bookmarked[page].renamed
                                            \/ bookmarked[page].name # name)]]
    /\ UNCHANGED <<pages, fonts, saved>>
    /\ UNCHANGED outsideDocument

\* Fonts::get_font_by_id followed by PdfLayer::set_font, as the layout calls
\* them for every run of glyphs: the face is recorded, its name goes in the layer
SetFont ==
    /\ saved.outcome = "none"
    /\ DocSize < MaxSize
    /\ \E p \in 1..Len(pages), id \in FontIds :
         \E l \in 1..Len(pages[p].layers) :
            /\ fonts' = fonts \cup {id}
            /\ pages' = [pages EXCEPT ![p].layers[l] = set_font(@, PostScriptName(id))]
    /\ UNCHANGED <<bookmarks, bookmarked, saved>>
    /\ UNCHANGED outsideDocument

BeginTextSection ==
    /\ saved.outcome = "none"
    /\ DocSize < MaxSize
    /\ \E p \in 1..Len(pages) :
         \E l \in 1..Len(pages[p].layers) :
            pages' = [pages EXCEPT ![p].layers[l] = begin_text_section(@)]
    /\ UNCHANGED <<bookmarks, bookmarked, fonts, saved>>
    /\ UNCHANGED outsideDocument

\* ------------------------------------------------------------------------
\* The lopdf object table
\* ------------------------------------------------------------------------

\* an indirect reference held under a dictionary key (array entries repeat the key)
Ref(key, id) == [key |-> key, id |-> id]

\* a dictionary object: its /Type (or role), the references it holds, a name or
\* title, a count, and the numbers of its boxes
Dictionary(type, refs, name, num, extra) ==
    [type |-> type, refs |-> refs, name |-> name, num |-> num, extra |-> extra,
     is_stream |-> FALSE, content |-> <<>>, allows_compression |-> FALSE,
     filter |-> FALSE]

\* lopdf::Stream::new: compression is allowed unless with_compression(false)
Stream(type, content) ==
    [type |-> type, refs |-> <<>>, name |-> "", num |-> 0, extra |-> <<>>,
     is_stream |-> TRUE, content |-> content, allows_compression |-> TRUE,
     filter |-> FALSE]

with_compression(stream, allows) == [stream EXCEPT !.allows_compression = allows]

\* lopdf::Document::with_version
Document_with_version == [max_id |-> 0, objects |-> <<>>, trailer |-> <<>>]

\* lopdf::Document::new_object_id
new_object_id(doc) == [doc EXCEPT !.max_id = @ + 1]

\* doc.objects.insert(id, object)
objects_insert(doc, id, object) ==
    [doc EXCEPT !.objects = [k \in DOMAIN @ \cup {id} |-> IF k = id THEN object ELSE @[k]]]

\* lopdf::Document::add_object: the new object's id is doc.max_id afterwards
add_object(doc, object) == objects_insert(new_object_id(doc), doc.max_id + 1, object)

\* Option<T>: None is the empty sequence, Some(x) the sequence <<x>>
None == <<>>
Some(x) == <<x>>

RefIds(refs) == {refs[i].id : i \in DOMAIN refs}

\* `let v = ...;` followed by the rest of the block, Op
With(v, Op(_)) == Op(v)

\* ------------------------------------------------------------------------
\* save_to_bytes, step by step (pdf_document.rs 270-628)
\* ------------------------------------------------------------------------

Panicked(doc) == [doc |-> doc, panicked |-> TRUE]

\* the OCG dictionary of one layer (lines 401-408)
ocg_dictionary(layer_name, intent_arr_ref, usage_ocg_dict_ref) ==
    Dictionary("OCG",
               <<Ref("Intent", intent_arr_ref), Ref("Usage", usage_ocg_dict_ref)>>,
               layer_name, 0, <<>>)

RECURSIVE add_layer_ocgs(_, _, _, _, _)
\* one OCG dictionary per layer name of a page, in layer order (lines 395-411);
\* ocgs are the references collected so far
add_layer_ocgs(doc, layer_names, intent_arr_ref, usage_ocg_dict_ref, ocgs) ==
    IF layer_names = <<>> THEN [doc |-> doc, ocgs |-> ocgs]
    ELSE With(add_object(doc, ocg_dictionary(Head(layer_names),
                                             intent_arr_ref, usage_ocg_dict_ref)),
              LAMBDA d1 :
                 add_layer_ocgs(d1, Tail(layer_names), intent_arr_ref,
                                usage_ocg_dict_ref, Append(ocgs, d1.max_id)))

\* page index and layer names of every page (lines 360-369)
page_layer_names(pgs) ==
    [i \in 1..Len(pgs) |->
        [page_idx |-> pgs[i].index,
         layer_names |-> [j \in 1..Len(pgs[i].layers) |-> pgs[i].layers[j].name]]]

RECURSIVE make_ocg_list(_, _, _, _, _)
\* ocg_list: per page, its index and the references of its OCGs (lines 390-414);
\* list is the part built so far
make_ocg_list(doc, names, intent_arr_ref, usage_ocg_dict_ref, list) ==
    IF names = <<>> THEN [doc |-> doc, list |-> list]
    ELSE With(add_layer_ocgs(doc, Head(names).layer_names,
                             intent_arr_ref, usage_ocg_dict_ref, <<>>),
              LAMBDA r :
                 make_ocg_list(r.doc, Tail(names), intent_arr_ref, usage_ocg_dict_ref,
                     Append(list, [page_idx |-> Head(names).page_idx,
                                   ocgs |-> r.ocgs])))

\* flattened_ocg_list (lines 416-419)
flattened_ocg_list(list) == Flatten([i \in 1..Len(list) |-> list[i].ocgs])

\* the font stream as it would be without the call of with_compression(false)
font_stream_compressible(id) ==
    Stream("FontFile2", <<Operation("data", id, <<>>)>>)

\* font.rs 61-65: the stream of the font's bytes, compression disabled
font_stream(id) ==
    with_compression(Stream("FontFile2", <<Operation("data", id, <<>>)>>), FALSE)

\* font.rs 164-169: the ToUnicode CMAP stream
cid_to_unicode_map_stream(id) ==
    Stream("ToUnicode", <<Operation("cmap", id, <<>>)>>)

\* ExternalFont::into_with_document: adds the ToUnicode stream, the font stream
\* and the font descriptor to the document and returns the font dictionary;
\* glyph_ids unwraps the face's character map
into_with_document(doc, id) ==
    IF ~HasCmap(id) THEN Panicked(doc)
    ELSE
    With(add_object(doc, cid_to_unicode_map_stream(id)), LAMBDA d1 :
    With(add_object(d1, font_stream(id)), LAMBDA d2 :
    With(add_object(d2, Dictionary("FontDescriptor",
                                   <<Ref("FontFile2", d2.max_id)>>,
                                   PostScriptName(id), 0, <<>>)), LAMBDA d3 :
       [doc |-> d3, panicked |-> FALSE,
        dict |-> Some(Dictionary("Font",
                        <<Ref("FontDescriptor", d3.max_id),
                          Ref("ToUnicode", d1.max_id)>>,
                        PostScriptName(id), 0, <<>>))])))

RECURSIVE embed_fonts(_, _, _, _)
\* the font loop (lines 448-461); embedded lists the faces the embedder ran on
embed_fonts(doc, ids, font_dict, embedded) ==
    IF ids = <<>>
    THEN [doc |-> doc, panicked |-> FALSE, font_dict |-> font_dict, embedded |-> embedded]
    ELSE With(into_with_document(doc, Head(ids)), LAMBDA r :
            IF r.panicked THEN Panicked(doc)
            ELSE IF r.dict = None
            THEN embed_fonts(r.doc, Tail(ids), font_dict, Append(embedded, Head(ids)))
            ELSE With(new_object_id(r.doc), LAMBDA d :
                    embed_fonts(objects_insert(d, d.max_id, r.dict[1]), Tail(ids),
                        HashMapInsert(font_dict, PostScriptName(Head(ids)), d.max_id),
                        Append(embedded, Head(ids)))))

\* the name under which a page's resources list the OCG of its layer idx
OcgName(idx) == "MC" \o ToString(idx)

\* impl From<PdfLayer> for lopdf::Stream: the layer's operators, not compressible
layer_into_stream(layer) ==
    with_compression(Stream("Layer", layer.operations), FALSE)

\* the wrapping of one layer in collect_resources_and_streams (lines 86-111)
wrap_layer(layer, ocg_name) ==
    [layer EXCEPT !.operations =
        <<Operation("BDC", ocg_name, <<>>), Operation("q", "", <<>>)>>
        \o @ \o
        <<Operation("Q", "", <<>>), Operation("EMC", "", <<>>)>>]

\* PdfPage::collect_resources_and_streams: the resource dictionary lists the
\* page's OCGs under /Properties; ocg_refs[idx] is indexed by the layer index
collect_resources_and_streams(page, ocgs) ==
    [panicked |-> Len(page.layers) > Len(ocgs),
     resources |-> [k \in 1..Len(ocgs) |-> Ref("Properties", ocgs[k])],
     layer_streams |->
        [k \in 1..Len(page.layers) |->
            layer_into_stream(wrap_layer(page.layers[k], OcgName(k - 1)))]]

\* the layers' bytes taken from the last layer to the first
merged_layer_stream_reversed(layer_streams) ==
    Stream("Contents",
           Flatten([k \in 1..Len(layer_streams) |->
                       layer_streams[Len(layer_streams) + 1 - k].content]))

\* merged_layer_stream (lines 502-509): a new stream over the layers' bytes
merged_layer_stream(layer_streams) ==
    Stream("Contents",
           Flatten([k \in 1..Len(layer_streams) |-> layer_streams[k].content]))

\* the page dictionary (lines 470-486, 499, 512)
page_dictionary(page, pages_id, resources_ref, page_content_id) ==
    Dictionary("Page",
               <<Ref("Parent", pages_id)>> \o resources_ref
                   \o <<Ref("Contents", page_content_id)>>,
               "", 0,
               <<page.width, page.height, page.width, page.height,
                 page.width, page.height>>)

RECURSIVE add_pages(_, _, _, _, _)
\* the page loop (lines 469-518); ctx holds ocg_list, font_dict_id, pages_id
\* and the bookmarks, acc the page_ids and page_id_to_obj built so far
add_pages(doc, pgs, idx, ctx, acc) ==
    IF pgs = <<>>
    THEN [doc |-> doc, panicked |-> FALSE, page_ids |-> acc.page_ids,
          page_id_to_obj |-> acc.page_id_to_obj]
    ELSE
    With(SelectSeq(ctx.ocg_list, LAMBDA e : e.page_idx = idx), LAMBDA layers_temp :
    IF layers_temp = <<>> THEN Panicked(doc)
    ELSE
    With(collect_resources_and_streams(Head(pgs), Head(layers_temp).ocgs), LAMBDA c :
    IF c.panicked THEN Panicked(doc)
    ELSE
    With(c.resources \o (IF ctx.font_dict_id # None
                         THEN <<Ref("Font", ctx.font_dict_id[1])>> ELSE <<>>),
         LAMBDA resources_page :
    With(IF resources_page # <<>>
         THEN add_object(doc, Dictionary("Resources", resources_page, "", 0, <<>>))
         ELSE doc,
         LAMBDA d1 :
    With(add_object(d1, merged_layer_stream(c.layer_streams)), LAMBDA d2 :
    With(add_object(d2, page_dictionary(Head(pgs), ctx.pages_id,
                        IF resources_page # <<>>
                        THEN <<Ref("Resources", d1.max_id)>> ELSE <<>>,
                        d2.max_id)),
         LAMBDA d3 :
       add_pages(d3, Tail(pgs), idx + 1, ctx,
           [page_ids |-> Append(acc.page_ids, d3.max_id),
            page_id_to_obj |->
               IF idx \in DOMAIN ctx.bookmarks
               THEN HashMapInsert(acc.page_id_to_obj, idx, d3.max_id)
               ELSE acc.page_id_to_obj])))))))

\* sorted_bmarks (lines 544-546): the bookmarks by ascending page index
sorted_bmarks(bmarks) == SortedSeq(DOMAIN bmarks)

\* the links as they would be if every node but the first were written as the last
bookmark_links_unchained(i, len, max_id) ==
    IF i = 0 THEN <<Ref("Next", max_id + 2)>> ELSE <<Ref("Prev", max_id)>>

\* the Prev and Next of the i-th of len sorted bookmarks, written from max_id
\* before the node is added (lines 559-592)
bookmark_links(i, len, max_id) ==
    IF i = 0 THEN <<Ref("Next", max_id + 2)>>
    ELSE IF i = len - 1 THEN <<Ref("Prev", max_id)>>
    ELSE <<Ref("Prev", max_id), Ref("Next", max_id + 2)>>

\* what the i-th bookmark sets in the Outlines root (lines 560, 571)
bookmark_list_entry(i, len, max_id) ==
    IF i = 0 THEN <<Ref("First", max_id + 1)>>
    ELSE IF i = len - 1 THEN <<Ref("Last", max_id + 1)>>
    ELSE <<>>

\* one node of the outline (lines 527-540, 561-591)
bookmark_node(bookmarks_id, title, links, dest) ==
    Dictionary("Bookmark",
               <<Ref("Parent", bookmarks_id)>> \o links \o <<Ref("Dest", dest)>>,
               title, 0, <<>>)

RECURSIVE add_sorted_bookmarks(_, _, _, _, _)
\* the loop over more than one bookmark (lines 547-593), i counting from 0
add_sorted_bookmarks(doc, sorted, i, ctx, list_refs) ==
    IF i = Len(sorted)
    THEN [doc |-> doc, panicked |-> FALSE, list_refs |-> list_refs]
    ELSE IF sorted[i + 1] \notin DOMAIN ctx.page_id_to_obj THEN Panicked(doc)
    ELSE add_sorted_bookmarks(
             add_object(doc,
                 bookmark_node(ctx.bookmarks_id, ctx.bookmarks[sorted[i + 1]],
                               bookmark_links(i, Len(sorted), doc.max_id),
                               ctx.page_id_to_obj[sorted[i + 1]])),
             sorted, i + 1, ctx,
             list_refs \o bookmark_list_entry(i, Len(sorted), doc.max_id))

\* the bookmarks chain (lines 520-595)
add_bookmarks(doc, ctx) ==
    IF DOMAIN ctx.bookmarks = {}
    THEN [doc |-> doc, panicked |-> FALSE, list_refs |-> <<>>]
    ELSE IF Cardinality(DOMAIN ctx.bookmarks) = 1
    THEN With(CHOOSE k \in DOMAIN ctx.bookmarks : TRUE, LAMBDA page_index :
         IF page_index \notin DOMAIN ctx.page_id_to_obj THEN Panicked(doc)
         ELSE With(add_object(doc,
                       bookmark_node(ctx.bookmarks_id, ctx.bookmarks[page_index],
                                     <<>>, ctx.page_id_to_obj[page_index])),
                   LAMBDA d1 :
                      [doc |-> d1, panicked |-> FALSE,
                       list_refs |-> <<Ref("First", d1.max_id),
                                       Ref("Last", d1.max_id)>>]))
    ELSE add_sorted_bookmarks(doc, sorted_bmarks(ctx.bookmarks), 0, ctx, <<>>)

\* ------------------------------------------------------------------------
\* optimize (pdf_document.rs 630-635): the three lopdf passes
\* ------------------------------------------------------------------------

RECURSIVE traverse_objects(_, _)
\* lopdf::Document::traverse_objects: the ids referenced from the trailer on
traverse_objects(doc, seen) ==
    LET next == seen \cup
                UNION {RefIds(doc.objects[id].refs) : id \in seen \cap DOMAIN doc.objects}
    IN IF next = seen THEN seen ELSE traverse_objects(doc, next)

\* lopdf::Document::prune_objects: drop what the trailer does not reach
prune_objects(doc) ==
    With(traverse_objects(doc, RefIds(doc.trailer)), LAMBDA refs :
       [doc EXCEPT !.objects = [k \in DOMAIN @ \cap refs |-> @[k]]])

\* lopdf::Document::delete_object: the object goes, and so does every
\* reference to it in the objects the trailer reaches
delete_object(doc, id) ==
    With(traverse_objects(doc, RefIds(doc.trailer)), LAMBDA reached :
       [doc EXCEPT !.objects =
          [k \in DOMAIN @ \ {id} |->
              IF k \in reached /\ ~@[k].is_stream
              THEN [@[k] EXCEPT !.refs = SelectSeq(@, LAMBDA r : r.id # id)]
              ELSE @[k]]])

RECURSIVE delete_streams(_, _)
delete_streams(doc, ids) ==
    IF ids = <<>> THEN doc
    ELSE LET id == Head(ids)
         IN IF id \in DOMAIN doc.objects /\ doc.objects[id].is_stream
               /\ doc.objects[id].content = <<>>
            THEN delete_streams(delete_object(doc, id), Tail(ids))
            ELSE delete_streams(doc, Tail(ids))

\* lopdf::Document::delete_zero_length_streams
delete_zero_length_streams(doc) == delete_streams(doc, SortedSeq(DOMAIN doc.objects))

\* lopdf::Document::compress: a stream that allows compression and has no
\* Filter yet gets /Filter /FlateDecode when deflate makes it smaller
compress(doc, shrinks) ==
    [doc EXCEPT !.objects =
        [k \in DOMAIN @ |->
            IF @[k].is_stream /\ @[k].allows_compression /\ ~@[k].filter /\ shrinks
            THEN [@[k] EXCEPT !.filter = TRUE]
            ELSE @[k]]]

\* PdfDocument::optimize
optimize(doc, shrinks) ==
    compress(delete_zero_length_streams(prune_objects(doc)), shrinks)

RECURSIVE DictRefs(_, _)
\* the entries of a dictionary of references, one Ref per key
DictRefs(dict, keys) ==
    IF keys = {} THEN <<>>
    ELSE LET k == CHOOSE x \in keys : TRUE
         IN <<Ref(k, dict[k])>> \o DictRefs(dict, keys \ {k})

ArrayRefs(key, ids) == [i \in 1..Len(ids) |-> Ref(key, ids[i])]

\* the Catalog (lines 321-346, 421-437); ids are the object ids it refers to
catalog_dictionary(bmarks, ids, flattened) ==
    Dictionary("Catalog",
        <<Ref("Outlines", ids.bookmarks_id), Ref("Pages", ids.pages_id)>>
        \o (IF ids.icc_profile_id # None
            THEN <<Ref("DestinationOutputProfile", ids.icc_profile_id[1])>> ELSE <<>>)
        \o (IF ids.xmp_metadata_id # None
            THEN <<Ref("Metadata", ids.xmp_metadata_id[1])>> ELSE <<>>)
        \o ArrayRefs("OCGs", flattened)
        \o ArrayRefs("Order", flattened)
        \o ArrayRefs("ON", flattened),
        IF DOMAIN bmarks # {} THEN "UseOutlines" ELSE "UseNone", 0, <<>>)

\* PdfMetadata::into_obj followed by lines 292-297 and 337-342: the XMP stream
\* if configured, the Info dictionary, the ICC profile stream if configured
add_metadata(doc, metadata) ==
    With(IF metadata.xmp
         THEN add_object(doc, Stream("Metadata", <<Operation("xmp", "", <<>>)>>))
         ELSE doc,
         LAMBDA d1 :
    With(add_object(d1, Dictionary("Info", <<>>, "", 0, <<>>)), LAMBDA d2 :
    With(IF metadata.icc # "none"
         THEN add_object(d2, with_compression(
                  Stream("ICC", IF metadata.icc = "empty" THEN <<>>
                                ELSE <<Operation("icc", "", <<>>)>>), FALSE))
         ELSE d2,
         LAMBDA d3 :
       [doc |-> d3,
        xmp_metadata_id |-> IF metadata.xmp THEN Some(d1.max_id) ELSE None,
        document_info_id |-> d2.max_id,
        icc_profile_id |-> IF metadata.icc # "none" THEN Some(d3.max_id) ELSE None])))

\* the finalization as it would be if the reserved Outlines id were never filled
finalize_without_outlines(doc, pgs, bmarks, ids, page_ids, list_refs, flattened) ==
    With(objects_insert(doc, ids.pages_id,
             Dictionary("Pages", ArrayRefs("Kids", page_ids), "", Len(pgs), <<>>)),
         LAMBDA d1 :
    With(add_object(d1, catalog_dictionary(bmarks, ids, flattened)),
         LAMBDA d3 :
       [d3 EXCEPT !.trailer = <<Ref("Root", d3.max_id),
                                Ref("Info", ids.document_info_id)>>]))

\* the finalization as it would be if the page ids were listed last page first
finalize_kids_reversed(doc, pgs, bmarks, ids, page_ids, list_refs, flattened) ==
    With(objects_insert(doc, ids.pages_id,
             Dictionary("Pages",
                        ArrayRefs("Kids", [i \in 1..Len(page_ids) |->
                                              page_ids[Len(page_ids) + 1 - i]]),
                        "", Len(pgs), <<>>)),
         LAMBDA d1 :
    With(objects_insert(d1, ids.bookmarks_id,
             Dictionary("Outlines", list_refs, "", Cardinality(DOMAIN bmarks), <<>>)),
         LAMBDA d2 :
    With(add_object(d2, catalog_dictionary(bmarks, ids, flattened)),
         LAMBDA d3 :
       [d3 EXCEPT !.trailer = <<Ref("Root", d3.max_id),
                                Ref("Info", ids.document_info_id)>>])))

\* lines 597-620: Kids, the two reserved objects, the Catalog, the trailer
finalize(doc, pgs, bmarks, ids, page_ids, list_refs, flattened) ==
    With(objects_insert(doc, ids.pages_id,
             Dictionary("Pages", ArrayRefs("Kids", page_ids), "", Len(pgs), <<>>)),
         LAMBDA d1 :
    With(objects_insert(d1, ids.bookmarks_id,
             Dictionary("Outlines", list_refs, "", Cardinality(DOMAIN bmarks), <<>>)),
         LAMBDA d2 :
    With(add_object(d2, catalog_dictionary(bmarks, ids, flattened)),
         LAMBDA d3 :
       [d3 EXCEPT !.trailer = <<Ref("Root", d3.max_id),
                                Ref("Info", ids.document_info_id)>>])))

\* PdfDocument::save_to_bytes. font_ids is the order in which the set of faces
\* is iterated, metadata says whether XMP metadata and an ICC profile are
\* configured, shrinks whether deflate gains on the streams, io_ok whether
\* writing the bytes succeeds
save_to_bytes(pgs, bmarks, font_ids, metadata, shrinks, io_ok) ==
    With(new_object_id(Document_with_version), LAMBDA d1 :
    With(new_object_id(d1), LAMBDA d2 :
    With(add_metadata(d2, metadata), LAMBDA m :
    With(add_object(m.doc, Dictionary("OCG", <<>>, "", 0, <<>>)), LAMBDA d3 :
    With(add_object(d3, Dictionary("Intent", <<>>, "", 0, <<>>)), LAMBDA d4 :
    With(make_ocg_list(d4, page_layer_names(pgs), d4.max_id, d3.max_id, <<>>),
         LAMBDA o :
    With(embed_fonts(o.doc, font_ids, <<>>, <<>>), LAMBDA f :
    IF f.panicked THEN [outcome |-> "Panic"]
    ELSE
    With(IF DOMAIN f.font_dict # {}
         THEN add_object(f.doc, Dictionary("FontDict",
                             DictRefs(f.font_dict, DOMAIN f.font_dict), "", 0, <<>>))
         ELSE f.doc,
         LAMBDA d5 :
    With(add_pages(d5, pgs, 0,
                   [ocg_list |-> o.list,
                    font_dict_id |-> IF DOMAIN f.font_dict # {}
                                     THEN Some(d5.max_id) ELSE None,
                    pages_id |-> d1.max_id, bookmarks |-> bmarks],
                   [page_ids |-> <<>>, page_id_to_obj |-> <<>>]),
         LAMBDA p :
    IF p.panicked THEN [outcome |-> "Panic"]
    ELSE
    With(add_bookmarks(p.doc, [bookmarks |-> bmarks, bookmarks_id |-> d2.max_id,
                               page_id_to_obj |-> p.page_id_to_obj]),
         LAMBDA b :
    IF b.panicked THEN [outcome |-> "Panic"]
    ELSE
    With(finalize(b.doc, pgs, bmarks,
                  [pages_id |-> d1.max_id, bookmarks_id |-> d2.max_id,
                   xmp_metadata_id |-> m.xmp_metadata_id,
                   document_info_id |-> m.document_info_id,
                   icc_profile_id |-> m.icc_profile_id],
                  p.page_ids, b.list_refs, flattened_ocg_list(o.list)),
         LAMBDA built :
    With(optimize(built, shrinks), LAMBDA optimized :
    IF ~io_ok THEN [outcome |-> "ErrIo"]
    ELSE [outcome |-> "Ok",
          built |-> built.objects,
          objects |-> optimized.objects,
          trailer |-> optimized.trailer,
          embedded |-> f.embedded,
          font_dict |-> f.font_dict,
          page_ids |-> p.page_ids]))))))))))))

SaveToBytes ==
    /\ saved.outcome = "none"
    /\ \E font_ids \in Perms(fonts), xmp, shrinks, io_ok \in BOOLEAN,
          icc \in {"none", "empty", "profile"} :
          saved' = save_to_bytes(pages, bookmarks, font_ids,
                                 [xmp |-> xmp, icc |-> icc], shrinks, io_ok)
    /\ UNCHANGED <<pages, bookmarks, bookmarked, fonts>>
    /\ UNCHANGED outsideDocument

Next ==
    \/ AddPage
    \/ AddLayer
    \/ AddBookmark
    \/ SetFont
    \/ BeginTextSection
    \/ SaveToBytes

Spec == Init /\ [][Next]_vars

\* ------------------------------------------------------------------------
\* SpecLayer: one layer under the operations of PdfLayer (pdf_layer.rs)
\* ------------------------------------------------------------------------

InitLayer ==
    /\ current_layer = PdfLayer_new("text")
    /\ calls = <<>>
    /\ DocumentUnused
    /\ FontUnused
    /\ LayoutUnused
    /\ SubsetUnused
    /\ GroupUnused
    /\ TocUnused

Call(fn, name, args) == [fn |-> fn, name |-> name, args |-> args]

LayerBeginTextSection ==
    /\ Len(calls) < MaxCalls
    /\ current_layer' = begin_text_section(current_layer)
    /\ calls' = Append(calls, Call("begin_text_section", "", <<>>))
    /\ UNCHANGED outsideLayer

LayerEndTextSection ==
    /\ Len(calls) < MaxCalls
    /\ current_layer' = end_text_section(current_layer)
    /\ calls' = Append(calls, Call("end_text_section", "", <<>>))
    /\ UNCHANGED outsideLayer

LayerSetFont ==
    /\ Len(calls) < MaxCalls
    /\ \E id \in {"f1", "f3"} :
          /\ current_layer' = set_font(current_layer, PostScriptName(id))
          /\ calls' = Append(calls, Call("set_font", PostScriptName(id), <<>>))
    /\ UNCHANGED outsideLayer

LayerSetFillColor ==
    /\ Len(calls) < MaxCalls
    /\ \E color \in Colors :
          /\ current_layer' = set_fill_color(current_layer, color)
          /\ calls' = Append(calls, Call("set_fill_color", "", color))
    /\ UNCHANGED outsideLayer

LayerSetTextCursor ==
    /\ Len(calls) < MaxCalls
    /\ \E c \in Cursors :
          /\ current_layer' = set_text_cursor(current_layer, c[1], c[2])
          /\ calls' = Append(calls, Call("set_text_cursor", "", c))
    /\ UNCHANGED outsideLayer

LayerWriteCodepoints ==
    /\ Len(calls) < MaxCalls
    /\ \E run \in GlyphRuns :
          /\ current_layer' = write_codepoints(current_layer, run)
          /\ calls' = Append(calls, Call("write_codepoints", "", run))
    /\ UNCHANGED outsideLayer

LayerSaveGraphicsState ==
    /\ Len(calls) < MaxCalls
    /\ current_layer' = save_graphics_state(current_layer)
    /\ calls' = Append(calls, Call("save_graphics_state", "", <<>>))
    /\ UNCHANGED outsideLayer

LayerRestoreGraphicsState ==
    /\ Len(calls) < MaxCalls
    /\ current_layer' = restore_graphics_state(current_layer)
    /\ calls' = Append(calls, Call("restore_graphics_state", "", <<>>))
    /\ UNCHANGED outsideLayer

LayerAddShape ==
    /\ Len(calls) < MaxCalls
    /\ \E line \in Lines :
          /\ current_layer' = add_shape(current_layer, line)
          /\ calls' = Append(calls, Call("add_shape", "", line))
    /\ UNCHANGED outsideLayer

LayerUseXObject ==
    /\ Len(calls) < MaxCalls
    /\ \E t \in Transformations :
          /\ current_layer' = use_xobject(current_layer, "X0", t)
          /\ calls' = Append(calls, Call("use_xobject", "X0", t))
    /\ UNCHANGED outsideLayer

LayerAddOperation ==
    /\ Len(calls) < MaxCalls
    /\ current_layer' = add_operation(current_layer, Operation("T*", "", <<>>))
    /\ calls' = Append(calls, Call("add_operation", "", <<Operation("T*", "", <<>>)>>))
    /\ UNCHANGED outsideLayer

NextLayer ==
    \/ LayerBeginTextSection
    \/ LayerEndTextSection
    \/ LayerSetFont
    \/ LayerSetFillColor
    \/ LayerSetTextCursor
    \/ LayerWriteCodepoints
    \/ LayerSaveGraphicsState
    \/ LayerRestoreGraphicsState
    \/ LayerAddShape
    \/ LayerUseXObject
    \/ LayerAddOperation

SpecLayer == InitLayer /\ [][NextLayer]_vars

\* ------------------------------------------------------------------------
\* SpecFont: the embedding of one font face (font.rs 105-208, 259-278, 314-353)
\* ------------------------------------------------------------------------

\* the glyphs of the small faces
MaxGlyphs == 3

\* f64 has a significand of 53 binary digits
F64Digits == 53

\* font.rs 149: a bfchar block holds at most 100 entries
BlockCap == 100

\* font.rs 149: glyph_id >> 8 is the glyph id without its low byte
ByteSize == 256

\* font.rs 348: the height of a glyph without a bounding box
DefaultHeight == 1000

UnitsPerEm == {99, 1000, 2048}
Advances == {99, 600}
Box == [y_min |-> 0 - 200, y_max |-> 700]

Option(S) == {None} \cup {Some(x) : x \in S}

\* the glyphs a character maps to: every glyph but .notdef, or every other one
CharSets(n) == {0..n - 1, 1..n - 1, {g \in 1..n - 1 : g % 2 = 1}}

\* a face with a character map: its head and hhea values, the advance and the
\* bounding box of each glyph where it has one, and the first character the
\* unicode subtables map to each glyph
Face(units_per_em, n, advance, bbox, mapped) ==
    [units_per_em |-> units_per_em,
     number_of_glyphs |-> n,
     descender |-> 0 - 250,
     advance |-> advance,
     bbox |-> bbox,
     chars |-> [g \in mapped |-> 64 + g]]

SmallFaces ==
    UNION {{Face(u, n, a, [g \in 0..n - 1 |-> IF boxed THEN Some(Box) ELSE None], S) :
                u \in UnitsPerEm, a \in [0..n - 1 -> Option(Advances)],
                boxed \in BOOLEAN, S \in CharSets(n)} :
           n \in 1..MaxGlyphs}

\* faces whose mapped glyphs lo..hi reach the block capacity and the next high byte
Marks == {1, 99, 101, 156, 200, 256, 300, 356}
LargeFaces ==
    {Face(1000, r[2] + 1,
          [g \in 0..r[2] |-> IF g >= r[1] THEN Some(500) ELSE None],
          [g \in 0..r[2] |-> None],
          r[1]..r[2]) :
        r \in {r \in Marks \X Marks : r[1] < r[2]}}

\* a face whose glyph 1 has the largest bounding box the i16 fields can hold
ExtremeBox == [y_min |-> 0 - 32768, y_max |-> 32767]
ExtremeFaces ==
    {Face(1000, 2, [g \in 0..1 |-> Some(600)], [g \in 0..1 |-> Some(ExtremeBox)], {1})}

Faces == SmallFaces \cup LargeFaces \cup ExtremeFaces

\* every glyph id a character maps to, glyph 0 among them
glyph_ids_with_notdef(font) == font.chars

\* font.rs 314-336: glyph id -> character, for the glyph ids above 0
glyph_ids(font) == [g \in {g \in DOMAIN font.chars : g > 0} |-> font.chars[g]]

\* an i16 result as the build without overflow checks leaves it
WrapI16(n) == ((n + 32768) % 65536) - 32768

IsI16(n) == n >= 0 - 32768 /\ n <= 32767

\* `as u32` of an i16, sign-extended, as its two 16-bit halves <<high, low>>
AsU32(n) == IF n >= 0 THEN <<0, n>> ELSE <<65535, n + 65536>>

\* font.rs 345-347: one of the two i16 subtractions leaves the i16 range (a
\* panic in a build with overflow checks)
height_overflows(font, glyph_id) ==
    /\ font.bbox[glyph_id] # None
    /\ \/ ~IsI16(font.bbox[glyph_id][1].y_max - font.bbox[glyph_id][1].y_min)
       \/ ~IsI16(WrapI16(font.bbox[glyph_id][1].y_max - font.bbox[glyph_id][1].y_min)
                    - font.descender)

\* font.rs 338-353: the advance of the glyph and the height of its bounding box
\* above the descender, None for a glyph without an advance
glyph_metrics(font, glyph_id) ==
    IF glyph_id \notin DOMAIN font.advance \/ font.advance[glyph_id] = None THEN None
    ELSE Some([width |-> font.advance[glyph_id][1],
               height |-> IF font.bbox[glyph_id] = None THEN AsU32(DefaultHeight)
                          ELSE AsU32(WrapI16(
                                   WrapI16(font.bbox[glyph_id][1].y_max
                                              - font.bbox[glyph_id][1].y_min)
                                   - font.descender))])

\* font.rs 113-129: the BTreeMap holds glyph 0 and every mapped glyph with metrics
build_cmap(font) ==
    With(glyph_ids(font), LAMBDA ids :
       [g \in {0} \cup {g \in DOMAIN ids : glyph_metrics(font, g) # None} |->
           IF g \in DOMAIN ids /\ glyph_metrics(font, g) # None
           THEN <<ids[g], glyph_metrics(font, g)[1].width, glyph_metrics(font, g)[1].height>>
           ELSE <<0, 1000, AsU32(1000)>>])

\* font.rs 149: the entry opens a new block
starts_new_block_on_high_byte_only(glyph_id, cur_first_bit, current_cmap_block) ==
    (glyph_id \div ByteSize) % 65536 # cur_first_bit

starts_new_block(glyph_id, cur_first_bit, current_cmap_block) ==
    (glyph_id \div ByteSize) % 65536 # cur_first_bit \/ Len(current_cmap_block) >= BlockCap

\* font.rs 148-159: one turn of the loop over the BTreeMap
cmap_step(table, st, glyph_id) ==
    IF starts_new_block(glyph_id, st.cur_first_bit, st.current_cmap_block)
    THEN [cur_first_bit |-> (glyph_id \div ByteSize) % 65536,
          current_cmap_block |-> <<<<glyph_id, table[glyph_id][1]>>>>,
          all_cmap_blocks |-> Append(st.all_cmap_blocks, st.current_cmap_block)]
    ELSE [st EXCEPT !.current_cmap_block = Append(@, <<glyph_id, table[glyph_id][1]>>)]

RECURSIVE cmap_loop(_, _, _)
\* font.rs 148: the turns for the keys in their order: those for the first half
\* of the keys, then, from the state they leave, those for the second half
cmap_loop(table, st, keys) ==
    IF keys = <<>> THEN st
    ELSE IF Len(keys) = 1 THEN cmap_step(table, st, keys[1])
    ELSE CHOOSE after \in
            {cmap_loop(table, half, SubSeq(keys, Len(keys) \div 2 + 1, Len(keys))) :
                half \in {cmap_loop(table, st, SubSeq(keys, 1, Len(keys) \div 2))}} : TRUE

RECURSIVE iter_keys(_, _, _)
\* the keys of a BTreeMap between lo and hi in iteration order, which is ascending
iter_keys(table, lo, hi) ==
    IF lo > hi THEN <<>>
    ELSE IF lo = hi THEN (IF lo \in DOMAIN table THEN <<lo>> ELSE <<>>)
    ELSE iter_keys(table, lo, (lo + hi) \div 2) \o iter_keys(table, (lo + hi) \div 2 + 1, hi)

\* font.rs 141-162: the loop over the BTreeMap and the push of the last block
cmap_blocks(table, keys) ==
    With(cmap_loop(table, [cur_first_bit |-> 0, current_cmap_block |-> <<>>,
                           all_cmap_blocks |-> <<>>], keys),
         LAMBDA st : Append(st.all_cmap_blocks, st.current_cmap_block))

RECURSIVE HexDigits(_)
\* the hexadecimal digits of a natural number, most significant first
HexDigits(n) == IF n < 16 THEN <<n>> ELSE Append(HexDigits(n \div 16), n % 16)

\* {:04x}: hexadecimal, filled with zeros to four digits
Hex04(n) == [i \in 1..4 - Len(HexDigits(n)) |-> 0] \o HexDigits(n)

RECURSIVE FromHex(_)
FromHex(digits) ==
    IF digits = <<>> THEN 0
    ELSE 16 * FromHex(SubSeq(digits, 1, Len(digits) - 1)) + digits[Len(digits)]

\* font.rs 266-275: one "n beginbfchar ... endbfchar" section
bfchar_block(cmap_block) ==
    [count |-> Len(cmap_block),
     bfchar |-> [i \in 1..Len(cmap_block) |->
                    <<Hex04(cmap_block[i][1]), Hex04(cmap_block[i][2])>>]]

\* font.rs 259-278: the sections of the blocks the filter lets through
generate_cid_to_unicode_map(blocks) ==
    With(SelectSeq(blocks, LAMBDA block : block # <<>> \/ Len(block) < 100), LAMBDA kept :
       [i \in 1..Len(kept) |-> bfchar_block(kept[i])])

\* ------------------------------------------------------------------------
\* f64 arithmetic of the width scaling (font.rs 183, 189)
\* ------------------------------------------------------------------------
\* An f64 is [m, e]: the binary digits m of its significand, most significant
\* first and at most 53 of them, and the exponent e of the last digit; its
\* value is m * 2^e. Zero has no digits.

RECURSIVE ToBits(_)
\* the binary digits of a natural number, most significant first
ToBits(n) == IF n = 0 THEN <<>> ELSE Append(ToBits(n \div 2), n % 2)

RECURSIVE FromBits(_)
FromBits(bits) ==
    IF bits = <<>> THEN 0
    ELSE 2 * FromBits(SubSeq(bits, 1, Len(bits) - 1)) + bits[Len(bits)]

RECURSIVE StripZeros(_)
StripZeros(bits) ==
    IF bits # <<>> /\ Head(bits) = 0 THEN StripZeros(Tail(bits)) ELSE bits

RECURSIVE Increment(_)
\* the digits of the number plus one
Increment(bits) ==
    IF bits = <<>> THEN <<1>>
    ELSE IF bits[Len(bits)] = 0 THEN [bits EXCEPT ![Len(bits)] = 1]
    ELSE Append(Increment(SubSeq(bits, 1, Len(bits) - 1)), 0)

\* round to nearest, ties to even, the number bits * 2^e (plus less than one
\* unit of its last digit if sticky) to 53 digits
RoundToF64(bits, e, sticky) ==
    IF Len(bits) <= F64Digits THEN [m |-> bits, e |-> e]
    ELSE With(SubSeq(bits, 1, F64Digits), LAMBDA kept :
         With(bits[F64Digits + 1] = 1
              /\ (\/ sticky
                  \/ \E i \in F64Digits + 2..Len(bits) : bits[i] = 1
                  \/ kept[F64Digits] = 1),
              LAMBDA up :
         With(IF up THEN Increment(kept) ELSE kept, LAMBDA m :
            IF Len(m) > F64Digits
            THEN [m |-> SubSeq(m, 1, F64Digits), e |-> e + Len(bits) - F64Digits + 1]
            ELSE [m |-> m, e |-> e + Len(bits) - F64Digits])))

RECURSIVE LongDivision(_, _, _, _)
\* n more binary digits of r / d after the digits so far, and the remainder
LongDivision(r, d, n, digits) ==
    IF n = 0 THEN [digits |-> digits, remainder |-> r]
    ELSE LongDivision((2 * r) % d, d, n - 1, Append(digits, (2 * r) \div d))

\* a as f64 / b as f64, for integers a >= 0 and b > 0 that f64 holds exactly
F64Div(a, b) ==
    With(LongDivision(a % b, b, F64Digits + 8, ToBits(a \div b)), LAMBDA q :
       RoundToF64(StripZeros(q.digits), 0 - (F64Digits + 8), q.remainder # 0))

RECURSIVE MulDigits(_, _, _, _)
\* the digits of w * bits: from the last digit on, carry c, digits out so far
MulDigits(w, bits, c, out) ==
    IF bits = <<>> THEN ToBits(c) \o out
    ELSE MulDigits(w, SubSeq(bits, 1, Len(bits) - 1),
                   (c + w * bits[Len(bits)]) \div 2,
                   <<(c + w * bits[Len(bits)]) % 2>> \o out)

\* w as f64 * x, for a u32 w below 2^16
F64MulU32(w, x) ==
    IF w = 0 \/ x.m = <<>> THEN [m |-> <<>>, e |-> 0]
    ELSE RoundToF64(MulDigits(w, x.m, 0, <<>>), x.e, FALSE)

\* x as i64, for x >= 0 below 2^31: the fraction is dropped
F64AsI64(x) ==
    IF x.e >= 0 THEN FromBits(x.m \o [i \in 1..x.e |-> 0])
    ELSE IF 0 - x.e >= Len(x.m) THEN 0
    ELSE FromBits(SubSeq(x.m, 1, Len(x.m) + x.e))

\* font.rs 183: let percentage_font_scaling = 1000.0 / (units_per_em as f64)
percentage_font_scaling(units_per_em) == F64Div(1000, units_per_em)

\* font.rs 189: (width as f64 * percentage_font_scaling) as i64
scaled_width(width, scaling) == F64AsI64(F64MulU32(width, scaling))

\* font.rs 186-203: one turn of the loop over the glyph ids
widths_step(font, scaling, st, gid) ==
    IF glyph_metrics(font, gid) = None THEN st
    ELSE IF gid = st.current_high_gid
    THEN [st EXCEPT !.current_width_vec =
                        Append(@, scaled_width(glyph_metrics(font, gid)[1].width, scaling)),
                    !.current_high_gid = @ + 1]
    ELSE [widths_list |-> st.widths_list \o <<st.current_low_gid, st.current_width_vec>>,
          current_width_vec |-> <<scaled_width(glyph_metrics(font, gid)[1].width, scaling)>>,
          current_low_gid |-> gid,
          current_high_gid |-> gid + 1]

RECURSIVE widths_loop(_, _, _, _, _)
\* font.rs 185: the turns for the glyph ids lo..hi in ascending order: those
\* for the lower half, then, from the state they leave, those for the upper half
widths_loop(font, scaling, st, lo, hi) ==
    IF lo > hi THEN st
    ELSE IF lo = hi THEN widths_step(font, scaling, st, lo)
    ELSE CHOOSE after \in
            {widths_loop(font, scaling, half, (lo + hi) \div 2 + 1, hi) :
                half \in {widths_loop(font, scaling, st, lo, (lo + hi) \div 2)}} : TRUE

\* font.rs 177-206: the loop and the push of the last run; the list alternates
\* a first glyph id and the widths of the glyphs from it on
build_widths_list(font) ==
    With(widths_loop(font, percentage_font_scaling(font.units_per_em),
                     [widths_list |-> <<>>, current_low_gid |-> 0,
                      current_high_gid |-> 0, current_width_vec |-> <<>>],
                     0, font.number_of_glyphs - 1),
         LAMBDA st : st.widths_list \o <<st.current_low_gid, st.current_width_vec>>)

\* pdf.rs 274-283: the glyphs of the shaped runs written in the font: none,
\* glyph 1 alone, or every glyph a character maps to
WrittenGlyphs(font) == {{}, {1} \cap DOMAIN font.chars, DOMAIN font.chars}

InitFont ==
    /\ face \in Faces
    /\ written_glyphs \in WrittenGlyphs(face)
    /\ cmap = <<>>
    /\ all_cmap_blocks = <<>>
    /\ cid_to_unicode_map = <<>>
    /\ widths_list = <<>>
    /\ embedding = "start"
    /\ DocumentUnused
    /\ LayerUnused
    /\ LayoutUnused
    /\ SubsetUnused
    /\ GroupUnused
    /\ TocUnused

\* font.rs 105-129
CollectGlyphs ==
    /\ embedding = "start"
    /\ \E overflow_checks \in BOOLEAN :
          IF /\ overflow_checks
             /\ \E g \in DOMAIN glyph_ids(face) :
                   glyph_metrics(face, g) # None /\ height_overflows(face, g)
          THEN cmap' = cmap /\ embedding' = "panic"
          ELSE cmap' = build_cmap(face) /\ embedding' = "cmap"
    /\ UNCHANGED <<face, written_glyphs, all_cmap_blocks, cid_to_unicode_map, widths_list>>
    /\ UNCHANGED outsideFont

\* font.rs 141-165
BuildCmapBlocks ==
    /\ embedding = "cmap"
    /\ all_cmap_blocks' = cmap_blocks(cmap, iter_keys(cmap, 0, face.number_of_glyphs - 1))
    /\ cid_to_unicode_map' = generate_cid_to_unicode_map(all_cmap_blocks')
    /\ embedding' = "blocks"
    /\ UNCHANGED <<face, written_glyphs, cmap, widths_list>>
    /\ UNCHANGED outsideFont

\* font.rs 177-208
BuildWidthsList ==
    /\ embedding = "blocks"
    /\ widths_list' = build_widths_list(face)
    /\ embedding' = "done"
    /\ UNCHANGED <<face, written_glyphs, cmap, all_cmap_blocks, cid_to_unicode_map>>
    /\ UNCHANGED outsideFont

NextFont ==
    \/ CollectGlyphs
    \/ BuildCmapBlocks
    \/ BuildWidthsList

SpecFont == InitFont /\ [][NextFont]_vars

\* ------------------------------------------------------------------------
\* SpecLayout: blocks laid out on pages (pdf.rs 148-187, 211-286, 359-510)
\* ------------------------------------------------------------------------
\* Lengths are whole millionths of a millimetre, font sizes and line heights
\* whole thousandths of a point.

\* the blocks of a layout
MaxBlocks == 3

\* pdf.rs 54
X_MARGIN == 10

\* pdf.rs 55
Y_MARGIN == 25

\* pdf.rs 56
BOTTOM_RULE == PageHeight - Y_MARGIN

Mm(mm) == mm * 1000000
Pt(pt) == pt * 1000

\* Mm::from(Pt): points into millimetres
PtIntoMm(pt) == (pt \div 1000) * 352778 + ((pt % 1000) * 352778) \div 1000

\* pdf.rs 535-542, in thousandths of a point
SIZES == <<48000, 36377, 27569, 20893, 15834, 12000>>

Headings == {1, 6}
HeadingLines == {1, 2}
ParagraphLines == {1, 30, 60}
CodeLines == {0, 30, 60}
RenderHeights == {Mm(100), (Mm(PageHeight) * 3) \div 4}
CaptionLines == {1, 2}

\* Page::new: the page starts at the top margin
Page_new == [y_offset |-> Mm(Y_MARGIN), written |-> <<>>]

\* what was put on the text layer of a page in one go: a text line, the shape
\* behind a code block, an image or the extras, with the block it belongs to
\* (0 for the extras), the height on the page and the operators appended
Written(block, kind, y, operations) ==
    [block |-> block, kind |-> kind, y |-> y, operations |-> operations]

\* the operators of the text layer of a page, in the order they were appended
LayerOperations(page) ==
    Flatten([i \in 1..Len(page.written) |-> page.written[i].operations])

\* a run of glyphs of one font and one span of attributes
Run(font_name, glyphs) == [font_name |-> font_name, glyphs |-> glyphs]

\* the runs of a line: one font, or two
LineRuns == {<<Run("PTSerif", <<65>>)>>,
             <<Run("PTSerif", <<65>>), Run("FiraCode", <<258, 3>>)>>}

\* PdfLayer::set_text_cursor with the lengths left in millionths of a millimetre
set_text_cursor_at(layer, x, y) == add_operation(layer, Operation("Td", "", <<x, y>>))

\* PdfLayer::set_line_height
set_line_height(layer, height) == add_operation(layer, Operation("TL", "", <<height>>))

RECURSIVE write_runs(_, _)
\* pdf.rs 278-283: font, colour and glyphs of each run
write_runs(layer, runs) ==
    IF runs = <<>> THEN layer
    ELSE write_runs(write_codepoints(set_fill_color(set_font(layer, Head(runs).font_name),
                                                    <<0, 0, 0>>),
                                     Head(runs).glyphs),
                    Tail(runs))

\* an overflow without the assertion
overflow_never_panics(size) == FALSE

\* pdf.rs 240: assert!(size + Y_MARGIN < BOTTOM_RULE, "block is toooooo big")
overflow_panics(size) == ~(size + Mm(Y_MARGIN) < Mm(BOTTOM_RULE))

\* an overflow that makes a page only when there is none
overflow_keeps_page(pgs, size) ==
    IF pgs = <<>> THEN Append(pgs, Page_new) ELSE pgs

\* pdf.rs 242-252: a new page if there is none or the size does not fit
overflow(pgs, size) ==
    IF pgs = <<>> THEN Append(pgs, Page_new)
    ELSE IF pgs[Len(pgs)].y_offset + size > Mm(BOTTOM_RULE) THEN Append(pgs, Page_new)
    ELSE pgs

\* pdf.rs 255-286: the line goes to the last page at its offset, which then
\* grows by the line height
write_line(pgs, block, runs, x_offset, line_height, y_offset) ==
    [pgs EXCEPT ![Len(pgs)] =
        [y_offset |-> @.y_offset + PtIntoMm(line_height),
         written |->
            Append(@.written,
                   Written(block, "line", Mm(PageHeight) - @.y_offset - y_offset,
                           end_text_section(
                               write_runs(
                                   set_text_cursor_at(
                                       begin_text_section(PdfLayer_new("text")),
                                       x_offset,
                                       Mm(PageHeight) - @.y_offset - y_offset),
                                   runs)).operations))]]

RECURSIVE write_lines(_, _, _, _, _, _)
\* pdf.rs 434-457: the lines lo..hi of a code block, one write_line each: the
\* lower half, then, from the pages it leaves, the upper half
write_lines(pgs, block, runs, lo, hi, line_height) ==
    IF lo > hi THEN pgs
    ELSE IF lo = hi THEN write_line(pgs, block, runs, Mm(X_MARGIN) * 2, line_height, 0)
    ELSE CHOOSE after \in
            {write_lines(half, block, runs, (lo + hi) \div 2 + 1, hi, line_height) :
                half \in {write_lines(pgs, block, runs, lo, (lo + hi) \div 2,
                                      line_height)}} : TRUE

RECURSIVE write_shaped_lines(_, _, _, _, _, _, _)
\* pdf.rs 211-237: overflow(Mm(0.0)) and write_line for each of the lines
\* lo..hi of layout, which holds the runs of a line and where a line starts
write_shaped_lines(pgs, block, layout, lo, hi, line_height, y_offset) ==
    IF lo > hi THEN pgs
    ELSE IF lo = hi
    THEN write_line(overflow(pgs, 0), block, layout.runs, layout.x_offset,
                    line_height, y_offset)
    ELSE CHOOSE after \in
            {write_shaped_lines(half, block, layout, (lo + hi) \div 2 + 1, hi,
                                line_height, y_offset) :
                half \in {write_shaped_lines(pgs, block, layout, lo, (lo + hi) \div 2,
                                             line_height, y_offset)}} : TRUE

\* pdf.rs 162-171: a page is made if there is none
add_y_offset(pgs, offset) ==
    With(IF pgs = <<>> THEN <<Page_new>> ELSE pgs, LAMBDA ps :
       [ps EXCEPT ![Len(ps)].y_offset = @ + offset])

\* pdf.rs 148-160, for a paragraph of lines > 0 shaped lines
end_last_paragraph(pgs, block, lines, runs) ==
    add_y_offset(write_shaped_lines(pgs, block,
                                    [runs |-> runs, x_offset |-> Mm(X_MARGIN)],
                                    1, lines, Pt(14), 0),
                 PtIntoMm(Pt(14)) \div 2)

\* pdf.rs 173-187, after the overflow test
write_header(pgs, block, heading, lines) ==
    With((SIZES[heading] * 14) \div 10, LAMBDA line_height :
       write_shaped_lines(overflow(pgs, PtIntoMm(line_height) * lines), block,
                          [runs |-> <<Run("FiraSans-Bold", <<65>>)>>,
                           x_offset |-> Mm(X_MARGIN)],
                          1, lines, line_height, PtIntoMm(line_height) \div 2))

\* pdf.rs 389-460, after the overflow test: the shape behind the block, the
\* lines, the space below
write_code(pgs, block, lines, line_height) ==
    With(overflow(pgs, PtIntoMm(line_height) * lines), LAMBDA ps :
    With([ps EXCEPT ![Len(ps)] =
             [y_offset |-> @.y_offset + PtIntoMm(line_height),
              written |->
                 Append(@.written,
                        Written(block, "shape",
                                Mm(PageHeight) - @.y_offset
                                   - PtIntoMm(line_height) * (1 + lines),
                                add_shape(set_fill_color(PdfLayer_new("text"),
                                                         <<217, 217, 217>>),
                                          <<Operation("m", "", <<>>),
                                            Operation("l", "", <<>>),
                                            Operation("l", "", <<>>),
                                            Operation("l", "", <<>>),
                                            Operation("h", "", <<>>),
                                            Operation("f", "", <<>>)>>).operations))]],
         LAMBDA shaped :
       add_y_offset(write_lines(shaped, block, <<Run("FiraCode", <<258, 3>>)>>,
                                1, lines, line_height),
                    (PtIntoMm(line_height) * 3) \div 2)))

\* pdf.rs 484-509, after the overflow test: the image, the caption, the space below
add_image(pgs, block, render_height, lines) ==
    With(overflow(pgs, render_height + PtIntoMm(Pt(14)) * lines), LAMBDA ps :
    With([ps EXCEPT ![Len(ps)] =
             [y_offset |-> @.y_offset + render_height + PtIntoMm(Pt(14)),
              written |->
                 Append(@.written,
                        Written(block, "image",
                                Mm(PageHeight) - @.y_offset - render_height,
                                use_xobject(PdfLayer_new("text"), "X0",
                                            <<<<1, 0, 0, 1, 26, 0>>>>).operations))]],
         LAMBDA placed :
       add_y_offset(write_shaped_lines(placed, block,
                                       [runs |-> <<Run("PTSerif", <<65>>)>>,
                                        x_offset |-> Mm(PageWidth) \div 4],
                                       1, lines, Pt(14), 0),
                    PtIntoMm(Pt(14)))))

\* pdf.rs 337-353: what write_extras appends to the text layer of a page: font
\* and line height, then the title and the page number, each in a text section
extras_operations(font_name, title, number) ==
    end_text_section(
      write_codepoints(
        set_text_cursor_at(
          set_fill_color(
            begin_text_section(
              end_text_section(
                write_codepoints(
                  set_text_cursor_at(
                    set_fill_color(
                      begin_text_section(
                        set_line_height(set_font(PdfLayer_new("text"), font_name), 14)),
                      <<0, 0, 0>>),
                    Mm(PageWidth) \div 4, Mm(PageHeight) - Mm(5) - PtIntoMm(Pt(14))),
                  title))),
            <<0, 0, 0>>),
          Mm(PageWidth) \div 2, Mm(12) - PtIntoMm(Pt(14))),
        number)).operations

\* pdf.rs 288-356: title and page number on every page
write_extras(pgs) ==
    [i \in 1..Len(pgs) |->
        [pgs[i] EXCEPT !.written =
            Append(@, Written(0, "extras", 0,
                              extras_operations("PTSerif-Bold", <<65, 66>>, <<16 + i>>)))]]

\* what is known of a block when its operation starts
Block(kind, size) ==
    [kind |-> kind, size |-> size, pages_before |-> Len(layout_pages),
     y_before |-> IF layout_pages = <<>> THEN 0
                  ELSE layout_pages[Len(layout_pages)].y_offset]

InitLayout ==
    /\ layout_pages = <<>>
    /\ appended = <<>>
    /\ layout_outcome = "ok"
    /\ DocumentUnused
    /\ LayerUnused
    /\ FontUnused
    /\ SubsetUnused
    /\ GroupUnused
    /\ TocUnused

\* Document::new_page (pdf.rs 359-367)
NewPage ==
    /\ layout_outcome = "ok"
    /\ Len(appended) < MaxBlocks
    /\ layout_pages' = Append(layout_pages, Page_new)
    /\ appended' = Append(appended, Block("new_page", 0))
    /\ UNCHANGED layout_outcome
    /\ UNCHANGED outsideLayout

\* Document::end_last_paragraph (pdf.rs 148-160) with a paragraph that is not empty
EndLastParagraph ==
    /\ layout_outcome = "ok"
    /\ Len(appended) < MaxBlocks
    /\ \E lines \in ParagraphLines, runs \in LineRuns :
          /\ layout_pages' = end_last_paragraph(layout_pages, Len(appended) + 1,
                                                lines, runs)
          /\ appended' = Append(appended, Block("paragraph", PtIntoMm(Pt(14)) * lines))
    /\ UNCHANGED layout_outcome
    /\ UNCHANGED outsideLayout

\* Document::write_header (pdf.rs 173-187)
WriteHeader ==
    /\ layout_outcome = "ok"
    /\ Len(appended) < MaxBlocks
    /\ \E heading \in Headings, lines \in HeadingLines :
          With(PtIntoMm((SIZES[heading] * 14) \div 10) * lines, LAMBDA size :
             IF overflow_panics(size)
             THEN /\ layout_outcome' = "panic"
                  /\ UNCHANGED <<layout_pages, appended>>
             ELSE /\ layout_pages' = write_header(layout_pages, Len(appended) + 1,
                                                  heading, lines)
                  /\ appended' = Append(appended, Block("heading", size))
                  /\ UNCHANGED layout_outcome)
    /\ UNCHANGED outsideLayout

\* Document::write_code (pdf.rs 369-461), called with a line height of 12 points
WriteCode ==
    /\ layout_outcome = "ok"
    /\ Len(appended) < MaxBlocks
    /\ \E lines \in CodeLines :
          With(PtIntoMm(Pt(12)) * lines, LAMBDA size :
             IF overflow_panics(size)
             THEN /\ layout_outcome' = "panic"
                  /\ UNCHANGED <<layout_pages, appended>>
             ELSE /\ layout_pages' = write_code(layout_pages, Len(appended) + 1,
                                                lines, Pt(12))
                  /\ appended' = Append(appended, Block("code", size))
                  /\ UNCHANGED layout_outcome)
    /\ UNCHANGED outsideLayout

\* Document::add_image (pdf.rs 463-510)
AddImage ==
    /\ layout_outcome = "ok"
    /\ Len(appended) < MaxBlocks
    /\ \E render_height \in RenderHeights, lines \in CaptionLines :
          With(render_height + PtIntoMm(Pt(14)) * lines, LAMBDA size :
             IF overflow_panics(size)
             THEN /\ layout_outcome' = "panic"
                  /\ UNCHANGED <<layout_pages, appended>>
             ELSE /\ layout_pages' = add_image(layout_pages, Len(appended) + 1,
                                               render_height, lines)
                  /\ appended' = Append(appended, Block("image", size))
                  /\ UNCHANGED layout_outcome)
    /\ UNCHANGED outsideLayout

\* Document::write_extras (pdf.rs 288-356), the last operation of the layout
\* (main.rs 75)
WriteExtras ==
    /\ layout_outcome = "ok"
    /\ layout_pages' = write_extras(layout_pages)
    /\ layout_outcome' = "extras"
    /\ UNCHANGED appended
    /\ UNCHANGED outsideLayout

NextLayout ==
    \/ NewPage
    \/ EndLastParagraph
    \/ WriteHeader
    \/ WriteCode
    \/ AddImage
    \/ WriteExtras

SpecLayout == InitLayout /\ [][NextLayout]_vars

\* ------------------------------------------------------------------------
\* Font subsetting (printpdf/subsetting.rs)
\* ------------------------------------------------------------------------

\* the largest glyph id of the fonts and glyph sets explored
MaxGid == 3

GlyphIds == 0..MaxGid

\* What subset reads of a font: whether it has a cmap table and whether one
\* of its subtables is usable, and the glyph of the Euro sign in it.
SubsetFonts ==
    [cmap_table : {"missing", "unsupported", "unicode"}, euro : Option(GlyphIds)]

\* subsetting.rs 25-28: read_table_data(tag::CMAP)? fails without the table,
\* read_cmap_subtable(..)?.ok_or(MissingValue)? without a usable subtable
read_cmap_subtable(bytes) ==
    IF bytes.cmap_table = "unicode" THEN Some(bytes) ELSE None

\* a lookup that answers .notdef for a character the font does not have
map_glyph_or_notdef(cmap_subtable) ==
    IF cmap_subtable.euro = None THEN Some(0) ELSE cmap_subtable.euro

\* subsetting.rs 31-33: cmap_subtable.map_glyph(0x20AC)
map_glyph(cmap_subtable) == cmap_subtable.euro

\* the glyph list in descending order
sort_descending(glyphs) ==
    [i \in 1..Cardinality(glyphs) |-> SortedSeq(glyphs)[Cardinality(glyphs) + 1 - i]]

\* subsetting.rs 37-39: used_glyphs.iter().copied().collect(), sort_unstable()
sort_unstable(glyphs) == SortedSeq(glyphs)

\* subsetting.rs 43-46: gid_mapping.insert(old_gid, idx as u16) over
\* glyph_ids.into_iter().enumerate(); a later insert of a key replaces it
gid_mapping_of(sorted_ids) ==
    [old_gid \in {sorted_ids[i] : i \in 1..Len(sorted_ids)} |->
        (CHOOSE idx \in 0..(Len(sorted_ids) - 1) :
            /\ sorted_ids[idx + 1] = old_gid
            /\ \A later \in (idx + 1)..(Len(sorted_ids) - 1) : sorted_ids[later + 1] # old_gid)
        % 65536]

SubsetErr(passed, used, error) ==
    [outcome |-> "Err", error |-> error, passed |-> passed, used_glyphs |-> used]

SubsetOk(passed, used, mapping) ==
    [outcome |-> "Ok", gid_mapping |-> mapping, passed |-> passed, used_glyphs |-> used]

\* subsetting.rs 34-35, 37-51: from used_glyphs.insert(0) on; subsetted says
\* whether allsorts::subset::subset made the new font
subset_with_euro(passed, gid_eur, subsetted) ==
    IF ~subsetted
    THEN SubsetErr(passed, passed \cup {0, gid_eur}, "subset")
    ELSE SubsetOk(passed, passed \cup {0, gid_eur},
                  gid_mapping_of(sort_unstable(passed \cup {0, gid_eur})))

\* subsetting.rs 19-52: subset(font_bytes, used_glyphs)
subset(bytes, passed, subsetted) ==
    IF read_cmap_subtable(bytes) = None
    THEN SubsetErr(passed, passed, "cmap")
    ELSE IF map_glyph(read_cmap_subtable(bytes)[1]) = None
    THEN SubsetErr(passed, passed, "MissingValue")
    ELSE subset_with_euro(passed, map_glyph(read_cmap_subtable(bytes)[1])[1], subsetted)

InitSubset ==
    /\ font_bytes \in SubsetFonts
    /\ used_glyphs \in SUBSET GlyphIds
    /\ subset_call = NoSubset
    /\ DocumentUnused
    /\ LayerUnused
    /\ FontUnused
    /\ LayoutUnused
    /\ GroupUnused
    /\ TocUnused

\* one call of subset on the caller's set
Subset ==
    /\ subset_call = NoSubset
    /\ \E subsetted \in BOOLEAN :
        /\ subset_call' = subset(font_bytes, used_glyphs, subsetted)
        /\ used_glyphs' = subset(font_bytes, used_glyphs, subsetted).used_glyphs
    /\ UNCHANGED font_bytes
    /\ UNCHANGED outsideSubset

NextSubset == Subset

SpecSubset == InitSubset /\ [][NextSubset]_vars

\* ------------------------------------------------------------------------
\* GroupSliceBy (pdf.rs 544-579), the runs of a line (pdf.rs 274-283)
\* ------------------------------------------------------------------------

\* the longest slice the iterator is made over
MaxRun == 3

\* the glyphs of a line, and the keys (span attributes, font) they may have
Glyphs == {"a", "b", "c"}
GroupKeys == {"serif", "mono"}

\* the slices of up to MaxRun glyphs
Slices == UNION {[1..n -> Glyphs] : n \in 0..MaxRun}

RECURSIVE first_other(_, _, _)
\* pdf.rs 566-575: the loop from index 1 (the second element, here i = 2) to
\* the first element whose key differs from that of the first; the result is
\* the index split_at is given, the whole length if the loop runs out
first_other(items, key_of, i) ==
    IF i > Len(items) THEN Len(items)
    ELSE IF key_of[items[i]] # key_of[items[1]] THEN i - 1
    ELSE first_other(items, key_of, i + 1)

\* split_at(i): the first i elements and the rest
split_at(items, i) == <<SubSeq(items, 1, i), SubSeq(items, i + 1, Len(items))>>

\* a next that splits one element after the first element of another key
GroupSliceBy_next_split_late(items, key_of) ==
    IF items = <<>> THEN [item |-> None, slice |-> items]
    ELSE With(split_at(items, IF first_other(items, key_of, 2) < Len(items)
                              THEN first_other(items, key_of, 2) + 1
                              ELSE Len(items)),
              LAMBDA parts :
                 [item |-> Some(<<key_of[items[1]], parts[1]>>), slice |-> parts[2]])

\* GroupSliceBy::next (pdf.rs 560-578): None on the empty slice, else the key
\* of the first element with the elements up to the first of another key;
\* mem::take on line 577 leaves the empty slice
GroupSliceBy_next(items, key_of) ==
    IF items = <<>> THEN [item |-> None, slice |-> items]
    ELSE With(split_at(items, first_other(items, key_of, 2)), LAMBDA parts :
            [item |-> Some(<<key_of[items[1]], parts[1]>>), slice |-> parts[2]])

InitGroup ==
    /\ line_glyphs \in Slices
    /\ slice = line_glyphs
    /\ group \in [Glyphs -> GroupKeys]
    /\ yielded = <<>>
    /\ exhausted = FALSE
    /\ DocumentUnused
    /\ LayerUnused
    /\ FontUnused
    /\ LayoutUnused
    /\ SubsetUnused
    /\ TocUnused

\* one turn of the for loop of pdf.rs 278: next is called, the loop ends on None
GroupNext ==
    /\ ~exhausted
    /\ slice' = GroupSliceBy_next(slice, group).slice
    /\ yielded' = IF GroupSliceBy_next(slice, group).item = None THEN yielded
                  ELSE Append(yielded, GroupSliceBy_next(slice, group).item[1])
    /\ exhausted' = (GroupSliceBy_next(slice, group).item = None)
    /\ UNCHANGED <<group, line_glyphs>>
    /\ UNCHANGED outsideGroup

NextGroup == GroupNext

\* the for loop calls next until it returns None
SpecGroup == InitGroup /\ [][NextGroup]_vars /\ WF_vars(GroupNext)

\* ------------------------------------------------------------------------
\* TocNode::build (toc.rs 17-77)
\* ------------------------------------------------------------------------

\* the nodes build_toc_tree is called on
MaxNodes == 3

\* a heading with its level and the number of Text children it has; the
\* levels from 3 on are all treated alike (toc.rs 32)
Heading(level, texts) == [kind |-> "Heading", level |-> level, texts |-> texts]

\* the headings the table of contents takes, and the nodes it passes over
TocHeadings == {Heading(level, texts) : level \in 1..2, texts \in 0..2}
OtherNodes == {Heading(3, 1), [kind |-> "Paragraph", level |-> 0, texts |-> 0]}

\* toc.rs 45-49, 59-63: a node of the arena; children are indices in the arena
TocNode(level) == [level |-> level, children |-> <<>>]

\* the index of the root in the arena
Root == 1

\* Vec::truncate: keeps the first len elements, all of them if there are fewer
truncate(st, len) == SubSeq(st, 1, IF len < Len(st) THEN len ELSE Len(st))

\* build_toc_tree (toc.rs 21-57) on a node that is not a Document: a heading
\* of level 1 or 2 must have exactly one Text child (toc.rs 33-47); its node
\* is allocated, the stack truncated to the level, the node pushed to the
\* children of the last of the stack and then on the stack (toc.rs 51-53)
build_toc_tree(ar, st, ast_node) ==
    IF ast_node.kind = "Heading" /\ ast_node.level < 3
    THEN IF ast_node.texts # 1 \/ truncate(st, ast_node.level) = <<>>
         THEN [arena |-> ar, stack |-> st, panicked |-> TRUE]
         ELSE With(truncate(st, ast_node.level), LAMBDA open :
                 [arena |-> [Append(ar, TocNode(ast_node.level))
                               EXCEPT ![open[Len(open)]].children =
                                          Append(@, Len(ar) + 1)],
                  stack |-> Append(open, Len(ar) + 1),
                  panicked |-> FALSE])
    ELSE [arena |-> ar, stack |-> st, panicked |-> FALSE]

\* toc.rs 59-65: the root, alone on the stack
InitToc ==
    /\ arena = <<TocNode(0)>>
    /\ stack = <<Root>>
    /\ ast_nodes = <<>>
    /\ toc_outcome = "ok"
    /\ DocumentUnused
    /\ LayerUnused
    /\ FontUnused
    /\ LayoutUnused
    /\ SubsetUnused
    /\ GroupUnused

\* the loop of toc.rs 67-74 reaches a heading of level 1 or 2
BuildHeading ==
    /\ toc_outcome = "ok"
    /\ Len(ast_nodes) < MaxNodes
    /\ \E ast_node \in TocHeadings :
          /\ ast_nodes' = Append(ast_nodes, ast_node)
          /\ arena' = build_toc_tree(arena, stack, ast_node).arena
          /\ stack' = build_toc_tree(arena, stack, ast_node).stack
          /\ toc_outcome' = IF build_toc_tree(arena, stack, ast_node).panicked
                            THEN "panic" ELSE "ok"
    /\ UNCHANGED outsideToc

\* the loop reaches any other node (toc.rs 55)
BuildOther ==
    /\ toc_outcome = "ok"
    /\ Len(ast_nodes) < MaxNodes
    /\ \E ast_node \in OtherNodes :
          /\ ast_nodes' = Append(ast_nodes, ast_node)
          /\ arena' = build_toc_tree(arena, stack, ast_node).arena
          /\ stack' = build_toc_tree(arena, stack, ast_node).stack
    /\ UNCHANGED toc_outcome
    /\ UNCHANGED outsideToc

NextToc ==
    \/ BuildHeading
    \/ BuildOther

SpecToc == InitToc /\ [][NextToc]_vars

\* ------------------------------------------------------------------------
\* Reading the saved object graph
\* ------------------------------------------------------------------------

Saved == saved.outcome = "Ok"

\* the ids a dictionary holds under a key, in order
RefsUnder(obj, key) ==
    [i \in 1..Len(SelectSeq(obj.refs, LAMBDA r : r.key = key)) |->
        SelectSeq(obj.refs, LAMBDA r : r.key = key)[i].id]

OfType(objects, type) == {id \in DOMAIN objects : objects[id].type = type}

\* every reference of the trailer and of every object names an object present
Resolved(objects, trailer) ==
    /\ RefIds(trailer) \subseteq DOMAIN objects
    /\ \A id \in DOMAIN objects : RefIds(objects[id].refs) \subseteq DOMAIN objects

\* ------------------------------------------------------------------------
\* Claims about the document and save_to_bytes
\* ------------------------------------------------------------------------

\* C1: save_to_bytes ends either in Ok with the whole byte stream or in
\* Err(Error::Io), and in no other way.
C1_SaveEndsOkOrIoError == saved.outcome \in {"none", "Ok", "ErrIo"}

\* C2: when save_to_bytes writes the bytes, every indirect reference held by the
\* trailer and by any object names an object of the object table, before the
\* optimize step as well as after it.
C2_ReferencesResolve ==
    Saved => /\ Resolved(saved.built, saved.trailer)
             /\ Resolved(saved.objects, saved.trailer)

\* C2 witness: a saved document with a page, a bookmark, a font and an ICC
\* profile stream of length zero, which the optimize step deleted
C2_Witness ==
    /\ Saved
    /\ OfType(saved.objects, "Page") # {}
    /\ OfType(saved.objects, "Bookmark") # {}
    /\ OfType(saved.objects, "Font") # {}
    /\ OfType(saved.built, "ICC") # {}
    /\ OfType(saved.objects, "ICC") = {}

\* C3: save_to_bytes runs the font embedder exactly once per distinct
\* PostScript name the document references, and the font resource dictionary
\* has one entry per such name, pointing at the one font object of that name.
C3_OneEmbeddingPerName ==
    Saved =>
       LET names == {PostScriptName(id) : id \in fonts}
       IN /\ Len(saved.embedded) = Cardinality(names)
          /\ DOMAIN saved.font_dict = names
          /\ \A n \in names :
                {id \in OfType(saved.built, "Font") : saved.built[id].name = n}
                   = {saved.font_dict[n]}

\* the outline as the saved object table holds it
OutlinesRoot == saved.objects[RefsUnder(saved.objects[saved.trailer[1].id], "Outlines")[1]]
BookmarkNodes == OfType(saved.objects, "Bookmark")
\* the node whose Dest is the page object of page index p
NodeOfPage(p) ==
    CHOOSE id \in BookmarkNodes :
        RefsUnder(saved.objects[id], "Dest") = <<saved.page_ids[p + 1]>>

\* C4: the Outlines root has no First and no Last without bookmarks; a sole
\* bookmark has no Prev and no Next and is First and Last; several bookmarks
\* are chained by Next and Prev in ascending page order, the first without
\* Prev, the last without Next, First and Last naming the two ends; every
\* node's Dest is the page object of its page index.
C4_BookmarkChain ==
    Saved =>
       LET s == SortedSeq(DOMAIN bookmarks)
           node(i) == saved.objects[NodeOfPage(s[i])]
       IN /\ Cardinality(BookmarkNodes) = Len(s)
          /\ \A i \in 1..Len(s) :
                /\ \E id \in BookmarkNodes :
                      RefsUnder(saved.objects[id], "Dest") = <<saved.page_ids[s[i] + 1]>>
                /\ node(i).name = bookmarks[s[i]]
                /\ RefsUnder(node(i), "Next") =
                      (IF i < Len(s) THEN <<NodeOfPage(s[i + 1])>> ELSE <<>>)
                /\ RefsUnder(node(i), "Prev") =
                      (IF i > 1 THEN <<NodeOfPage(s[i - 1])>> ELSE <<>>)
          /\ RefsUnder(OutlinesRoot, "First") =
                (IF s # <<>> THEN <<NodeOfPage(s[1])>> ELSE <<>>)
          /\ RefsUnder(OutlinesRoot, "Last") =
                (IF s # <<>> THEN <<NodeOfPage(s[Len(s)])>> ELSE <<>>)

\* C4 witness: a saved document whose outline has a first, a middle and a last node
C4_Witness ==
    /\ Saved
    /\ Cardinality(BookmarkNodes) = 3
    /\ \E id \in BookmarkNodes :
          /\ RefsUnder(saved.objects[id], "Prev") # <<>>
          /\ RefsUnder(saved.objects[id], "Next") # <<>>

\* C8: the content stream save_to_bytes inserts for each page is marked not
\* compressible, so the compress step leaves it uncompressed.
C8_PageContentsNotCompressed ==
    Saved =>
       /\ \A id \in OfType(saved.built, "Contents") :
             ~saved.built[id].allows_compression
       /\ \A id \in OfType(saved.objects, "Contents") : ~saved.objects[id].filter

\* C9: the FontFile2 stream of every embedded font is created with compression
\* disabled and is what the FontDescriptor references, so the optimize step
\* compresses no font stream.
C9_FontStreamNotCompressed ==
    Saved =>
       /\ \A id \in OfType(saved.built, "FontDescriptor") :
             /\ Len(RefsUnder(saved.built[id], "FontFile2")) = 1
             /\ LET file == saved.built[RefsUnder(saved.built[id], "FontFile2")[1]]
                IN file.is_stream /\ file.type = "FontFile2"
                   /\ ~file.allows_compression
       /\ \A id \in OfType(saved.built, "FontFile2") :
             ~saved.built[id].allows_compression
       /\ \A id \in OfType(saved.objects, "FontFile2") : ~saved.objects[id].filter

\* C9 witness: a saved document that kept a font stream while the compress
\* step did compress the font's ToUnicode stream
C9_Witness ==
    /\ Saved
    /\ OfType(saved.objects, "FontFile2") # {}
    /\ \E id \in OfType(saved.objects, "ToUnicode") : saved.objects[id].filter

\* ------------------------------------------------------------------------
\* Claims about a layer
\* ------------------------------------------------------------------------

\* the operators a call is to emit, by the documentation of the operation
Emitted(call) ==
    CASE call.fn = "begin_text_section" -> <<Operation("BT", "", <<>>)>>
      [] call.fn = "end_text_section" -> <<Operation("ET", "", <<>>)>>
      [] call.fn = "set_font" -> <<Operation("Tf", call.name, <<>>)>>
      [] call.fn = "set_fill_color" -> <<Operation("rg", "", call.args)>>
      [] call.fn = "set_text_cursor" ->
            <<Operation("Td", "", <<MmIntoPt(call.args[1]), MmIntoPt(call.args[2])>>)>>
      [] call.fn = "write_codepoints" ->
            <<Operation("Tj", "",
                 [i \in 1..2 * Len(call.args) |->
                     IF i % 2 = 1 THEN call.args[(i + 1) \div 2] \div 256
                     ELSE call.args[i \div 2] % 256])>>
      [] call.fn = "save_graphics_state" -> <<Operation("q", "", <<>>)>>
      [] call.fn = "restore_graphics_state" -> <<Operation("Q", "", <<>>)>>
      [] call.fn = "add_shape" -> call.args
      [] call.fn = "use_xobject" ->
            <<Operation("q", "", <<>>)>>
            \o (IF call.args = <<>> THEN <<>>
                ELSE <<Operation("cm", "", combine_all(Identity, call.args))>>)
            \o <<Operation("Do", call.name, <<>>), Operation("Q", "", <<>>)>>
      [] OTHER -> call.args

\* C10: a layer is an append-only log: after each call the operator list is
\* the list before the call followed by the operators the call emits, so no
\* earlier operator is removed, changed or reordered.
C10_LayerAppendOnly ==
    [][current_layer'.operations = current_layer.operations \o Emitted(calls'[Len(calls')])]_vars

\* C10 witness: three calls were made, use_xobject with a transformation among
\* them, and the layer holds the operators of all three
C10_Witness ==
    /\ Len(calls) = 3
    /\ \E i \in 1..3 : calls[i].fn = "use_xobject" /\ calls[i].args # <<>>
    /\ calls[3].fn = "write_codepoints"
    /\ Len(current_layer.operations) >= 6

\* the image of a point under the transformation a b c d e f
Apply(m, pt) == <<m[1] * pt[1] + m[3] * pt[2] + m[5], m[2] * pt[1] + m[4] * pt[2] + m[6]>>

RECURSIVE ApplyAll(_, _)
\* the image of a point under the transformations of a list, first one first
ApplyAll(ms, pt) == IF ms = <<>> THEN pt ELSE ApplyAll(Tail(ms), Apply(Head(ms), pt))

\* m is the product of the transformations: both send the origin and the two
\* unit points to the same places
IsProduct(m, ms) ==
    \A pt \in {<<0, 0>>, <<1, 0>>, <<0, 1>>} : Apply(m, pt) = ApplyAll(ms, pt)

\* the operators are q, one cm with the product if there are transformations,
\* Do with the name, Q
XObjectOperators(ops, name, ms) ==
    /\ Len(ops) = IF ms = <<>> THEN 3 ELSE 4
    /\ ops[1] = Operation("q", "", <<>>)
    /\ ms # <<>> => ops[2].operator = "cm" /\ ops[2].name = "" /\ IsProduct(ops[2].bytes, ms)
    /\ ops[Len(ops) - 1] = Operation("Do", name, <<>>)
    /\ ops[Len(ops)] = Operation("Q", "", <<>>)

\* the nesting depth of q after the first n operators
Depth(ops, n) ==
    Cardinality({i \in 1..n : ops[i].operator = "q"})
        - Cardinality({i \in 1..n : ops[i].operator = "Q"})

\* q and Q are balanced and every cm lies inside a q ... Q pair
QBalanced(ops) ==
    /\ \A n \in 0..Len(ops) : Depth(ops, n) >= 0
    /\ Depth(ops, Len(ops)) = 0
    /\ \A i \in 1..Len(ops) : ops[i].operator = "cm" => Depth(ops, i) > 0

\* C22: every call of use_xobject appends q, then one cm holding the product
\* of the transformations if and only if there are any, then Do with the
\* name of the XObject, then Q; a layer built through use_xobject alone has
\* balanced q and Q with every cm inside a pair.
C22_UseXObjectBracketed ==
    [][/\ calls'[Len(calls')].fn = "use_xobject" =>
             /\ Len(current_layer'.operations) >= Len(current_layer.operations) + 3
             /\ SubSeq(current_layer'.operations, 1, Len(current_layer.operations))
                   = current_layer.operations
             /\ XObjectOperators(
                    SubSeq(current_layer'.operations, Len(current_layer.operations) + 1,
                           Len(current_layer'.operations)),
                    calls'[Len(calls')].name, calls'[Len(calls')].args)
       /\ (\A i \in 1..Len(calls') : calls'[i].fn = "use_xobject") =>
             QBalanced(current_layer'.operations)]_vars

\* C22 witness: a layer built by use_xobject alone, once without and once
\* with two transformations
C22_Witness ==
    /\ Len(calls) >= 2
    /\ \A i \in 1..Len(calls) : calls[i].fn = "use_xobject"
    /\ \E i \in 1..Len(calls) : calls[i].args = <<>>
    /\ \E i \in 1..Len(calls) : Len(calls[i].args) = 2
    /\ Len(current_layer.operations) >= 7

RECURSIVE DecodePairs(_)
\* the 16-bit values a byte string holds, two bytes each, high byte first
DecodePairs(bytes) ==
    IF Len(bytes) < 2 THEN <<>>
    ELSE <<bytes[1] * 256 + bytes[2]>> \o DecodePairs(SubSeq(bytes, 3, Len(bytes)))

\* C23: write_codepoints appends exactly one Tj whose operand has two bytes
\* per glyph id, in input order, high byte first; read back two bytes at a
\* time the operand is the sequence of glyph ids, the empty one included.
C23_CodepointsBigEndian ==
    [][calls'[Len(calls')].fn = "write_codepoints" =>
          /\ Len(current_layer'.operations) = Len(current_layer.operations) + 1
          /\ SubSeq(current_layer'.operations, 1, Len(current_layer.operations))
                = current_layer.operations
          /\ current_layer'.operations[Len(current_layer'.operations)].operator = "Tj"
          /\ Len(current_layer'.operations[Len(current_layer'.operations)].bytes)
                = 2 * Len(calls'[Len(calls')].args)
          /\ \A i \in 1..2 * Len(calls'[Len(calls')].args) :
                current_layer'.operations[Len(current_layer'.operations)].bytes[i] \in 0..255
          /\ DecodePairs(current_layer'.operations[Len(current_layer'.operations)].bytes)
                = calls'[Len(calls')].args]_vars

\* C23 witness: the empty run and a run of two glyph ids above 255 were written
C23_Witness ==
    /\ \E i \in 1..Len(calls) : calls[i].fn = "write_codepoints" /\ calls[i].args = <<>>
    /\ \E i \in 1..Len(calls) :
          calls[i].fn = "write_codepoints" /\ calls[i].args = <<65535, 256>>
    /\ \E k \in 1..Len(current_layer.operations) :
          current_layer.operations[k] = Operation("Tj", "", <<255, 255, 1, 0>>)

\* ------------------------------------------------------------------------
\* Claims about the font embedder
\* ------------------------------------------------------------------------

\* the (glyph id, codepoint) entries of the BTreeMap in ascending glyph-id order
Entries(table) ==
    With(iter_keys(table, 0, face.number_of_glyphs - 1), LAMBDA keys :
       [i \in 1..Len(keys) |-> <<keys[i], table[keys[i]][1]>>])

\* the entries a bfchar section reads back as
Decoded(section) ==
    [i \in 1..Len(section.bfchar) |->
        <<FromHex(section.bfchar[i][1]), FromHex(section.bfchar[i][2])>>]

\* no two glyph ids of the block differ in their high byte, and the block has
\* at most 100 entries
WellFormedBlock(block) ==
    /\ Len(block) <= BlockCap
    /\ \A i \in 1..Len(block) : block[i][1] \div ByteSize = block[1][1] \div ByteSize

\* C5: the ToUnicode CMAP blocks built from the entries in ascending glyph-id
\* order never hold two glyph ids with different high bytes, never hold more
\* than 100 entries, and their entries, concatenated in block order, are the
\* input entries in order, each exactly once; the emitted bfchar sections are
\* these blocks.
C5_CmapBlocks ==
    embedding \in {"blocks", "done"} =>
        /\ \A b \in 1..Len(all_cmap_blocks) : WellFormedBlock(all_cmap_blocks[b])
        /\ Flatten(all_cmap_blocks) = Entries(cmap)
        /\ Len(cid_to_unicode_map) = Len(all_cmap_blocks)
        /\ \A b \in 1..Len(cid_to_unicode_map) :
              /\ cid_to_unicode_map[b].count = Len(all_cmap_blocks[b])
              /\ Decoded(cid_to_unicode_map[b]) = all_cmap_blocks[b]

\* C5 witness: the blocks of a face with more than 100 mapped glyphs below
\* glyph 256 and mapped glyphs from 256 on: a block of exactly 100 entries, a
\* block that ends at the capacity and a block that ends at the high byte
C5_Witness ==
    /\ embedding = "blocks"
    /\ Len(all_cmap_blocks) >= 3
    /\ \E b \in 1..Len(all_cmap_blocks) - 1 :
          /\ Len(all_cmap_blocks[b]) = BlockCap
          /\ all_cmap_blocks[b + 1][1][1] \div ByteSize
                = all_cmap_blocks[b][1][1] \div ByteSize
    /\ \E b \in 1..Len(all_cmap_blocks) - 1 :
          /\ Len(all_cmap_blocks[b]) < BlockCap
          /\ all_cmap_blocks[b + 1][1][1] \div ByteSize
                # all_cmap_blocks[b][1][1] \div ByteSize

\* the places of the W array that give a width to the glyph: the pair and the
\* index in the pair's widths
Assigned(list, gid) ==
    {place \in UNION {{<<k, j>> : j \in 1..Len(list[2 * k])} : k \in 1..Len(list) \div 2} :
        list[2 * place[1] - 1] + place[2] - 1 = gid}

\* C6: re-expanded, the W array gives every glyph with a horizontal advance
\* exactly one width, advance * 1000 / units_per_em rounded toward zero, and
\* gives no width to a glyph without an advance.
C6_WArrayWidths ==
    embedding = "done" =>
        \A gid \in 0..face.number_of_glyphs - 1 :
            IF face.advance[gid] = None
            THEN Assigned(widths_list, gid) = {}
            ELSE /\ Cardinality(Assigned(widths_list, gid)) = 1
                 /\ \A place \in Assigned(widths_list, gid) :
                       widths_list[2 * place[1]][place[2]]
                          = (face.advance[gid][1] * 1000) \div face.units_per_em

\* the W array names each glyph with an advance once and no other glyph (the
\* part of C6 that does not depend on the scaling)
WArrayGlyphs ==
    embedding = "done" =>
        \A gid \in 0..face.number_of_glyphs - 1 :
            Cardinality(Assigned(widths_list, gid))
                = IF face.advance[gid] = None THEN 0 ELSE 1

\* the widths of the W array are the exact quotients for the faces of 1000 and
\* of 2048 units per em
WArrayExactWidths ==
    embedding = "done" /\ face.units_per_em \in {1000, 2048} => C6_WArrayWidths

\* C16: the glyph table always holds glyph 0 with codepoint 0 and advance
\* 1000, whatever the character map of the font says about glyph 0, and the
\* ToUnicode CMAP has a bfchar block whose first entry is 0000 -> 0000.
C16_NotdefAlwaysPresent ==
    /\ embedding \in {"cmap", "blocks", "done"} =>
          /\ 0 \in DOMAIN cmap
          /\ cmap[0][1] = 0
          /\ cmap[0][2] = 1000
    /\ embedding \in {"blocks", "done"} =>
          \E b \in 1..Len(cid_to_unicode_map) :
              /\ cid_to_unicode_map[b].count >= 1
              /\ cid_to_unicode_map[b].bfchar[1] = <<Hex04(0), Hex04(0)>>

\* C16 witness: the CMAP of a face whose character map sends a character to
\* glyph 0 and whose glyph 0 has an advance other than 1000
C16_Witness ==
    /\ embedding = "blocks"
    /\ 0 \in DOMAIN face.chars
    /\ face.advance[0] # None
    /\ face.advance[0] # Some(1000)
    /\ Len(cid_to_unicode_map) >= 1

\* the maximal runs of consecutive glyph ids with an advance, as <<first, last>>
MaximalRuns(font) ==
    {run \in (0..font.number_of_glyphs - 1) \X (0..font.number_of_glyphs - 1) :
        /\ run[1] <= run[2]
        /\ \A g \in run[1]..run[2] : font.advance[g] # None
        /\ (run[1] = 0 \/ font.advance[run[1] - 1] = None)
        /\ (run[2] = font.number_of_glyphs - 1 \/ font.advance[run[2] + 1] = None)}

\* the pairs of the W array, as <<start_gid, number of widths>>
WArrayPairs(list) == [k \in 1..Len(list) \div 2 |-> <<list[2 * k - 1], Len(list[2 * k])>>]

\* C19: the W array has exactly one pair per maximal run of consecutive glyph
\* ids with an advance, starting at the first glyph of the run with one width
\* per glyph of the run; no pair has an empty width list.
C19_WArrayPairsAreRuns ==
    embedding = "done" =>
        /\ Len(WArrayPairs(widths_list)) = Cardinality(MaximalRuns(face))
        /\ \A k \in 1..Len(WArrayPairs(widths_list)) :
              /\ WArrayPairs(widths_list)[k][2] > 0
              /\ <<WArrayPairs(widths_list)[k][1],
                   WArrayPairs(widths_list)[k][1] + WArrayPairs(widths_list)[k][2] - 1>>
                    \in MaximalRuns(face)

\* the faces whose glyph 0 has an advance: there the pairs are the runs
WArrayPairsWithNotdefAdvance ==
    face.advance[0] # None => C19_WArrayPairsAreRuns

\* C20: the metric pass ranges over the glyph ids the document uses: the
\* glyph table, from which the ToUnicode CMAP is written, has no entry other
\* than glyph 0 for a glyph the document never writes.
C20_OnlyUsedGlyphs ==
    embedding \in {"cmap", "blocks", "done"} =>
        /\ DOMAIN cmap \ {0} \subseteq written_glyphs
        /\ \A b \in 1..Len(all_cmap_blocks) : \A i \in 1..Len(all_cmap_blocks[b]) :
              all_cmap_blocks[b][i][1] \in written_glyphs \cup {0}

\* the glyph table has entries for mapped glyphs only
GlyphTableWithinCharacterMap ==
    embedding \in {"cmap", "blocks", "done"} => DOMAIN cmap \ {0} \subseteq DOMAIN face.chars

\* C21: for every glyph with a horizontal advance the derived height is the
\* top of its bounding box minus the descender, or 1000 without a bounding
\* box; it is obtained without overflow and is not negative (as a u32, its
\* high half is 0).
C21_GlyphHeight ==
    /\ embedding # "panic"
    /\ embedding \in {"cmap", "blocks", "done"} =>
          \A g \in DOMAIN cmap \ {0} :
              /\ cmap[g][3][1] = 0
              /\ cmap[g][3][2] = IF face.bbox[g] = None THEN 1000
                                 ELSE face.bbox[g][1].y_max - face.descender

\* the height the code derives, where nothing overflows: the extent of the
\* bounding box (y_max - y_min) minus the descender, or 1000 without a box
GlyphHeightIsExtentAboveDescender ==
    embedding \in {"cmap", "blocks", "done"} =>
        \A g \in DOMAIN cmap \ {0} :
            height_overflows(face, g)
            \/ cmap[g][3] = <<0, IF face.bbox[g] = None THEN 1000
                                  ELSE face.bbox[g][1].y_max - face.bbox[g][1].y_min
                                       - face.descender>>

\* ------------------------------------------------------------------------
\* Claims about the layout
\* ------------------------------------------------------------------------

\* the pages that hold something the block wrote
PagesOf(block) ==
    {p \in 1..Len(layout_pages) :
        \E i \in 1..Len(layout_pages[p].written) : layout_pages[p].written[i].block = block}

\* C7: for every block the layout appends (paragraph, heading, code block,
\* image with caption): all that the block writes lands on one page, and if the
\* height of the block added to the y_offset of the current page exceeded the
\* bottom rule, that page is one created for the block.
C7_BlockNeverSplit ==
    \A b \in 1..Len(appended) :
        /\ Cardinality(PagesOf(b)) <= 1
        /\ appended[b].pages_before > 0
              /\ appended[b].y_before + appended[b].size > Mm(BOTTOM_RULE)
           => \A p \in PagesOf(b) : p > appended[b].pages_before

\* ------------------------------------------------------------------------
\* Claims about the page content, the pages tree and the bookmarks
\* ------------------------------------------------------------------------

\* the segment of the layer with index idx: BDC /OC /MCidx, q, the operators
\* of the layer in the order they were appended, Q, EMC
Segment(layer, idx) ==
    <<Operation("BDC", "MC" \o ToString(idx), <<>>), Operation("q", "", <<>>)>>
    \o layer.operations
    \o <<Operation("Q", "", <<>>), Operation("EMC", "", <<>>)>>

\* the content stream of the page object in an object table
ContentsOf(objects, page_id) == objects[RefsUnder(objects[page_id], "Contents")[1]].content

\* C11: the content stream of every serialized page is the concatenation, in
\* layer index order, of one segment per layer: BDC /OC <OCG name>, q, the
\* operators of the layer as appended, Q, EMC; so no operator of a layer lies
\* in the segment of another layer.
C11_PageContentIsLayerSegments ==
    Saved =>
        /\ Len(saved.page_ids) = Len(pages)
        /\ \A p \in 1..Len(pages) :
              /\ ContentsOf(saved.built, saved.page_ids[p])
                    = Flatten([k \in 1..Len(pages[p].layers) |->
                                  Segment(pages[p].layers[k], k - 1)])
              /\ ContentsOf(saved.objects, saved.page_ids[p])
                    = ContentsOf(saved.built, saved.page_ids[p])

\* C11 witness: a saved page with two layers, one of which holds an operator
C11_Witness ==
    /\ Saved
    /\ \E p \in 1..Len(pages) :
          /\ Len(pages[p].layers) = 2
          /\ pages[p].layers[1].operations # pages[p].layers[2].operations

\* ------------------------------------------------------------------------
\* Claims about the operators the layout writes
\* ------------------------------------------------------------------------

\* the operator at place i lies after a BT with no ET between them
InTextSection(ops, i) ==
    \E j \in 1..i - 1 :
        /\ ops[j].operator = "BT"
        /\ \A k \in j + 1..i - 1 : ops[k].operator # "ET"

\* every text operator of the operator list lies in a text section
Bracketed(ops) ==
    \A i \in 1..Len(ops) :
        ops[i].operator \in {"Tf", "TL", "Td", "Tj"} => InTextSection(ops, i)

\* C12: in the text layer of every page the layout produced, every text
\* operator (Tf, TL, Td, Tj) lies between a BT and the next ET.
C12_TextOperatorsBracketed ==
    \A p \in 1..Len(layout_pages) : Bracketed(LayerOperations(layout_pages[p]))

\* the operators written before write_extras are bracketed (the part of C12
\* that holds)
BracketedBeforeExtras ==
    layout_outcome # "extras" => C12_TextOperatorsBracketed

\* C15: a font without a character map does not abort save_to_bytes: the
\* call does not panic, and when it returns the bytes the font dictionary
\* names exactly the other fonts.
C15_MalformedFontSkipped ==
    (saved.outcome # "none" /\ \E id \in fonts : ~HasCmap(id)) =>
        /\ saved.outcome # "Panic"
        /\ Saved => DOMAIN saved.font_dict =
                       {PostScriptName(id) : id \in {i \in fonts : HasCmap(i)}}

\* the Pages root the Catalog of the saved document refers to
PagesRootId == RefsUnder(saved.objects[saved.trailer[1].id], "Pages")[1]
Kids == RefsUnder(saved.objects[PagesRootId], "Kids")

\* C17: the Pages root has Count = N and N Kids without duplicates, the page
\* objects in page order; every page's Parent is the Pages root and its
\* MediaBox, TrimBox and CropBox are equal; the Catalog's Pages entry is
\* that root.
C17_PageTree ==
    Saved =>
        /\ RefsUnder(saved.objects[saved.trailer[1].id], "Pages") = <<PagesRootId>>
        /\ saved.objects[saved.trailer[1].id].type = "Catalog"
        /\ saved.objects[PagesRootId].type = "Pages"
        /\ saved.objects[PagesRootId].num = Len(pages)
        /\ Len(Kids) = Len(pages)
        /\ \A i, j \in 1..Len(Kids) : i # j => Kids[i] # Kids[j]
        /\ Kids = saved.page_ids
        /\ \A p \in 1..Len(Kids) :
              /\ saved.objects[Kids[p]].type = "Page"
              /\ RefsUnder(saved.objects[Kids[p]], "Parent") = <<PagesRootId>>
              /\ saved.objects[Kids[p]].extra
                    = <<pages[p].width, pages[p].height, pages[p].width, pages[p].height,
                        pages[p].width, pages[p].height>>
              /\ ContentsOf(saved.built, Kids[p])
                    = Flatten([k \in 1..Len(pages[p].layers) |->
                                  Segment(pages[p].layers[k], k - 1)])

\* C17 witness: a saved document of two pages with different content
C17_Witness ==
    /\ Saved
    /\ Len(pages) >= 2
    /\ pages[1].layers # pages[2].layers

\* C18: each page index carries the title of the most recent add_bookmark
\* call for it and no other; the bookmarks are as many as the page indices
\* bookmarked, and that number is the Count of the Outlines root.
C18_LatestBookmarkWins ==
    /\ saved.outcome # "unused" =>
          /\ DOMAIN bookmarks = DOMAIN bookmarked
          /\ \A page \in DOMAIN bookmarks : bookmarks[page] = bookmarked[page].name
    /\ Saved =>
          /\ OutlinesRoot.type = "Outlines"
          /\ OutlinesRoot.num = Cardinality(DOMAIN bookmarked)
          /\ Cardinality(BookmarkNodes) = Cardinality(DOMAIN bookmarked)
          /\ \A page \in DOMAIN bookmarked :
                saved.objects[NodeOfPage(page)].name = bookmarked[page].name

\* C18 witness: a saved document with bookmarks on two pages, one of them
\* given a second title after the first
C18_Witness ==
    /\ Saved
    /\ Cardinality(DOMAIN bookmarked) >= 2
    /\ \E page \in DOMAIN bookmarked : bookmarked[page].renamed

\* the Catalog of the saved document
Catalog == saved.objects[saved.trailer[1].id]

\* the layer names of the document, in page order then layer order
LayerNamesInOrder ==
    Flatten([p \in 1..Len(pages) |->
                [l \in 1..Len(pages[p].layers) |-> pages[p].layers[l].name]])

\* OCProperties lists one OCG dictionary per layer, with the layer's name, in
\* page order then layer order, the same in OCGs, in D/Order and in D/ON, and
\* no reference under D/RBGroups
ListedOcgsAreTheLayers ==
    Saved =>
        /\ Len(RefsUnder(Catalog, "OCGs")) = Len(LayerNamesInOrder)
        /\ \A i, j \in 1..Len(RefsUnder(Catalog, "OCGs")) :
              i # j => RefsUnder(Catalog, "OCGs")[i] # RefsUnder(Catalog, "OCGs")[j]
        /\ \A i \in 1..Len(RefsUnder(Catalog, "OCGs")) :
              /\ saved.objects[RefsUnder(Catalog, "OCGs")[i]].type = "OCG"
              /\ saved.objects[RefsUnder(Catalog, "OCGs")[i]].name = LayerNamesInOrder[i]
        /\ RefsUnder(Catalog, "Order") = RefsUnder(Catalog, "OCGs")
        /\ RefsUnder(Catalog, "ON") = RefsUnder(Catalog, "OCGs")
        /\ RefsUnder(Catalog, "RBGroups") = <<>>

\* C24: save_to_bytes creates exactly one OCG dictionary per layer of every
\* page, with the layer's name, so that the OCG dictionaries are as many as
\* the layers of all pages; OCProperties lists exactly these, in page order
\* then layer order, the same in OCGs, D/Order and D/ON, and D/RBGroups is
\* empty.
C24_OneOcgPerLayer ==
    /\ ListedOcgsAreTheLayers
    /\ Saved =>
          /\ Cardinality(OfType(saved.built, "OCG")) = Len(LayerNamesInOrder)
          /\ OfType(saved.built, "OCG")
                = {RefsUnder(Catalog, "OCGs")[i] : i \in 1..Len(RefsUnder(Catalog, "OCGs"))}

\* the entries of the ocg_list of save_to_bytes that the lookup by the page
\* index idx finds (pdf_document.rs 489)
OcgEntries(idx) ==
    SelectSeq(make_ocg_list(Document_with_version, page_layer_names(pages), 0, 0, <<>>).list,
              LAMBDA entry : entry.page_idx = idx)

\* every page has its position as index and at least one layer, and the
\* lookup by page index finds one entry with one OCG per layer
PagesIndexed ==
    \A i \in 1..Len(pages) :
        /\ pages[i].index = i - 1
        /\ Len(pages[i].layers) >= 1
        /\ Len(OcgEntries(i - 1)) = 1
        /\ Len(OcgEntries(i - 1)[1].ocgs) = Len(pages[i].layers)

\* no page is removed, moved or resized, and a new page gets the next index
PagesKept ==
    /\ Len(pages') \in {Len(pages), Len(pages) + 1}
    /\ \A i \in 1..Len(pages) :
          /\ pages'[i].index = pages[i].index
          /\ pages'[i].width = pages[i].width
          /\ pages'[i].height = pages[i].height
          /\ Len(pages'[i].layers) >= Len(pages[i].layers)
    /\ Len(pages') = Len(pages) + 1 => pages'[Len(pages')].index = Len(pages)

\* C25: after any sequence of new / empty, add_page and add_layer the page at
\* position i has index i, the indices given out are 0, 1, 2, ... in call
\* order and stay valid, every page has at least one layer and keeps its
\* width and height; so the OCG lookup by page index in save_to_bytes finds
\* exactly one entry, with one OCG per layer.
C25_PageIndicesStable == []PagesIndexed /\ [][PagesKept]_vars

\* C25 witness: a saved document of two pages, one of them with two layers
C25_Witness ==
    /\ Saved
    /\ Len(pages) >= 2
    /\ \E p \in 1..Len(pages) : Len(pages[p].layers) >= 2

\* the text lines of a page
LinesOn(page) == {i \in 1..Len(page.written) : page.written[i].kind = "line"}

\* every text line lies between the top margin and the bottom rule, counted
\* from the top of the page, no page starts above the top margin, and no
\* page holds something of a later block than a page after it
LinesWithinRules ==
    /\ \A p \in 1..Len(layout_pages) :
          /\ layout_pages[p].y_offset >= Mm(Y_MARGIN)
          /\ \A i \in LinesOn(layout_pages[p]) :
                /\ Mm(PageHeight) - layout_pages[p].written[i].y >= Mm(Y_MARGIN)
                /\ Mm(PageHeight) - layout_pages[p].written[i].y <= Mm(BOTTOM_RULE)
    /\ \A p, q \in 1..Len(layout_pages) :
          p < q =>
             \A i \in 1..Len(layout_pages[p].written), j \in 1..Len(layout_pages[q].written) :
                layout_pages[p].written[i].block <= layout_pages[q].written[j].block

\* a step of the layout before write_extras leaves the pages before the last
\* one as they are, only adds to the last one, and lowers no y_offset
OnlyLastPageWritten ==
    layout_outcome' # "extras" =>
        /\ Len(layout_pages') >= Len(layout_pages)
        /\ \A p \in 1..Len(layout_pages) - 1 : layout_pages'[p] = layout_pages[p]
        /\ layout_pages # <<>> =>
              /\ layout_pages'[Len(layout_pages)].y_offset
                    >= layout_pages[Len(layout_pages)].y_offset
              /\ Len(layout_pages'[Len(layout_pages)].written)
                    >= Len(layout_pages[Len(layout_pages)].written)
              /\ SubSeq(layout_pages'[Len(layout_pages)].written, 1,
                        Len(layout_pages[Len(layout_pages)].written))
                    = layout_pages[Len(layout_pages)].written

Requested == {b \in 1..Len(appended) : appended[b].kind \in {"heading", "code", "image"}}

\* C27: a block whose requested height plus the top margin is not below the
\* bottom rule is rejected by the assertion of overflow, not split: no such
\* block is ever laid out, the accepted ones lie on one page, and the step
\* that fails the assertion leaves the pages and what was written as they
\* were.
C27_TooBigBlockRejected ==
    [](\A b \in Requested :
          /\ appended[b].size + Mm(Y_MARGIN) < Mm(BOTTOM_RULE)
          /\ Cardinality(PagesOf(b)) <= 1)
    /\ [][layout_outcome' = "panic" =>
             layout_pages' = layout_pages /\ appended' = appended]_vars

\* C27 witness: the assertion failed with two blocks laid out before
C27_Witness ==
    /\ layout_outcome = "panic"
    /\ Len(appended) >= 2
    /\ \E p \in 1..Len(layout_pages) : layout_pages[p].written # <<>>

\* the font names a page's layers select: the operands of their Tf operators
TfNames(page) ==
    {page.layers[l].operations[i].name :
        <<l, i>> \in {x \in (1..Len(page.layers)) \X (1..MaxSize) :
                         /\ x[2] <= Len(page.layers[x[1]].operations)
                         /\ page.layers[x[1]].operations[x[2]].operator = "Tf"}}

\* the object a written dictionary refers to under a key, if it has one
Resolve(obj, key) ==
    IF RefsUnder(obj, key) = <<>> \/ RefsUnder(obj, key)[1] \notin DOMAIN saved.objects
    THEN None
    ELSE Some(saved.objects[RefsUnder(obj, key)[1]])

\* the font object a name resolves to through the resources of the p-th page
FontOf(p, name) ==
    With(Resolve(saved.objects[saved.page_ids[p]], "Resources"), LAMBDA resources :
    IF resources = None THEN None
    ELSE With(Resolve(resources[1], "Font"), LAMBDA font_dict :
    IF font_dict = None THEN None
    ELSE Resolve(font_dict[1], name)))

\* C28: once save_to_bytes has written the document with the faces the
\* layout accumulated, every font name that is the operand of a Tf operator
\* in a layer of a page is a key of the font dictionary attached to that
\* page's resources, and the font object under that key has this name as its
\* BaseFont.
C28_FontHandlesResolve ==
    Saved =>
       \A p \in 1..Len(pages) : \A name \in TfNames(pages[p]) :
          /\ name \in DOMAIN saved.font_dict
          /\ FontOf(p, name) # None
          /\ FontOf(p, name)[1].type = "Font"
          /\ FontOf(p, name)[1].name = name

\* C28 witness: saved with two faces of one PostScript name selected on a page
C28_Witness ==
    /\ Saved
    /\ {"f1", "f2"} \subseteq fonts
    /\ \E p \in 1..Len(pages) : TfNames(pages[p]) # {}

\* the groups yielded so far: non-empty, every element with the group's key,
\* adjacent groups of different keys, and with what is left the original slice
GroupsAreRuns ==
    /\ \A k \in 1..Len(yielded) :
          /\ yielded[k][2] # <<>>
          /\ \A i \in 1..Len(yielded[k][2]) : group[yielded[k][2][i]] = yielded[k][1]
    /\ \A k \in 1..Len(yielded) - 1 : yielded[k][1] # yielded[k + 1][1]
    /\ Flatten([k \in 1..Len(yielded) |-> yielded[k][2]]) \o slice = line_glyphs

\* C29: for every slice and key function the groups GroupSliceBy yields are
\* non-empty, their elements have the key reported for the group, adjacent
\* groups have different keys, the groups in order make up the original
\* slice, and the iteration ends, after finitely many steps, with the slice
\* empty.
C29_GroupsAreMaximalRuns ==
    /\ [](GroupsAreRuns /\ (exhausted => slice = <<>>))
    /\ <>exhausted

\* C29 witness: the iteration ended after three groups, the first key twice
C29_Witness ==
    /\ exhausted
    /\ Len(yielded) = 3
    /\ yielded[1][1] = yielded[3][1]

\* the places a node of the arena is attached at: a parent and a position
AttachedAt(n) ==
    {x \in (1..Len(arena)) \X (1..MaxNodes) :
        /\ x[2] <= Len(arena[x[1]].children)
        /\ arena[x[1]].children[x[2]] = n}

\* the stack holds the root at its bottom, every heading is attached exactly
\* once, and the children of a node are in document order
TocIsOrderedTree ==
    /\ stack # <<>>
    /\ stack[1] = Root
    /\ \A n \in 2..Len(arena) : Cardinality(AttachedAt(n)) = 1
    /\ AttachedAt(Root) = {}
    /\ \A n \in 1..Len(arena) :
          \A i \in 1..Len(arena[n].children) - 1 :
             arena[n].children[i] < arena[n].children[i + 1]

\* C30: for every sequence of headings of level 1 or 2 the stack is never
\* empty when a heading is attached and has the root at its bottom, every
\* heading is attached exactly once, siblings keep document order, and the
\* children of every node have a level above the node's own.
C30_TocLevelsNest ==
    /\ TocIsOrderedTree
    /\ \A n \in 1..Len(arena) :
          \A i \in 1..Len(arena[n].children) :
             arena[arena[n].children[i]].level > arena[n].level

\* ------------------------------------------------------------------------
\* Claims about subset
\* ------------------------------------------------------------------------

\* the glyph the Euro sign maps to in the font handed to subset
Sentinel == font_bytes.euro[1]

\* C13: a successful subset returns a mapping whose domain is the passed
\* glyph set with 0 and the Euro glyph added, whose values are exactly
\* 0..n-1 for n the size of the domain, in ascending order of the old glyph
\* id, and in which glyph 0 maps to 0.
C13_SubsetMapping ==
    subset_call.outcome = "Ok" =>
        /\ DOMAIN subset_call.gid_mapping = subset_call.passed \cup {0, Sentinel}
        /\ {subset_call.gid_mapping[g] : g \in DOMAIN subset_call.gid_mapping}
              = 0..(Cardinality(DOMAIN subset_call.gid_mapping) - 1)
        /\ \A a, b \in DOMAIN subset_call.gid_mapping :
              a < b => subset_call.gid_mapping[a] < subset_call.gid_mapping[b]
        /\ subset_call.gid_mapping[0] = 0

C13_Witness ==
    /\ subset_call.outcome = "Ok"
    /\ 0 \notin subset_call.passed
    /\ Sentinel \notin subset_call.passed
    /\ Sentinel > 1
    /\ Cardinality(subset_call.passed) >= 2

\* C14: subset returns an error whenever the font has no usable cmap
\* subtable or the Euro sign has no glyph, and in both cases the caller's
\* used_glyphs is what was passed in.
C14_SubsetFailsUnchanged ==
    (subset_call # NoSubset
        /\ (font_bytes.cmap_table # "unicode" \/ font_bytes.euro = None)) =>
        /\ subset_call.outcome = "Err"
        /\ used_glyphs = subset_call.passed

C14_Witness ==
    /\ subset_call.outcome = "Err"
    /\ font_bytes.cmap_table = "unicode"
    /\ font_bytes.euro = None
    /\ used_glyphs # {} /\ 0 \notin used_glyphs

====
